---- MODULE Spec2Model ----
(***************************************************************************)
(* State-machine model of the AI dark mode extension.                      *)
(*                                                                         *)
(* Page side: the two content scripts that run in one page,                *)
(*   add-dark-class.js (kept in src/RELEASE_CHECKLIST.md, lines 146-979)   *)
(*   content.js        (src/unnamed/part_000)                              *)
(* share the document: the <html> class list, the <style> elements of      *)
(* <head>, the body's elements and their attributes.  Both register a      *)
(* runtime.onMessage listener, so one delivered message runs both.         *)
(*                                                                         *)
(* Fix side: popup.js (src/unnamed/part_001), background.js (kept in       *)
(* src/.github/ISSUE_TEMPLATE/feature_request.md, lines 67-) and           *)
(* server/server.js form the request path to the generative capability.    *)
(***************************************************************************)
EXTENDS Integers, Sequences, FiniteSets, TLC

(* ----------------------------- bounds ---------------------------------- *)
NumNodes == 2
MaxPatches == 2
TimeStep == 50
MaxRequests == 2
MaxLedger == 2
MaxMetrics == 1
MaxLog == 3
MaxFixed == 11
MaxClients == 2

(* ------------------------- program constants --------------------------- *)
DebounceDelay == 100
MenuZIndex == 100
MenuMinBox == 40
MaxConfidenceFixes == 10

(* --------------------------- small helpers ----------------------------- *)
Range(s) == {s[i] : i \in 1..Len(s)}

Min(S) == CHOOSE x \in S : \A y \in S : x <= y

Abs(x) == IF x < 0 THEN -x ELSE x

NoStyle == [text |-> "none", targets |-> <<>>]

NoTimer == -1

NoNotif == -1

(* ---------------------- the document's elements ------------------------ *)
Nodes == 1..NumNodes

(* The clients of the proxy that may have a call in flight.                *)
Clients == 1..MaxClients

Rgb(r, g, b, a) == [r |-> r, g |-> g, b |-> b, a |-> a]

Viewport == [w |-> 1920, h |-> 1080]

(* The elements the page may hold.  Element n keeps its attributes for as  *)
(* long as the page lives; only its place in the body changes.             *)
(*   kind 1: <ul id class="menu" role="menu">, absolute, transparent       *)
(*   kind 2: <div id class="dropdown" role="dialog">, absolute,            *)
(*           transparent, visibility: hidden                               *)
(*   kind 3: <nav class="sidebar">, fixed (so offsetParent is null), white *)
ElementKind(n) == ((n - 1) % 3) + 1

Element(n) ==
    CASE ElementKind(n) = 1 ->
           [tag |-> "ul", id |-> n, classes |-> <<"menu">>, role |-> "menu",
            ariaModal |-> FALSE, position |-> "absolute", zIndex |-> 500,
            backgroundColor |-> Rgb(0, 0, 0, 0), color |-> Rgb(0, 0, 0, 1),
            visibility |-> "visible", hasText |-> TRUE,
            offsetParent |-> TRUE, width |-> 200, height |-> 300]
      [] ElementKind(n) = 2 ->
           [tag |-> "div", id |-> n, classes |-> <<"dropdown">>, role |-> "dialog",
            ariaModal |-> TRUE, position |-> "absolute", zIndex |-> 1000,
            backgroundColor |-> Rgb(0, 0, 0, 0), color |-> Rgb(0, 0, 0, 1),
            visibility |-> "hidden", hasText |-> TRUE,
            offsetParent |-> TRUE, width |-> 300, height |-> 400]
      [] OTHER ->
           [tag |-> "nav", id |-> 0, classes |-> <<"sidebar">>, role |-> "navigation",
            ariaModal |-> FALSE, position |-> "fixed", zIndex |-> 200,
            backgroundColor |-> Rgb(255, 255, 255, 1), color |-> Rgb(0, 0, 0, 1),
            visibility |-> "visible", hasText |-> TRUE,
            offsetParent |-> FALSE, width |-> 250, height |-> 800]

(* generateCssSelector: tag, then #id when set, then every class.          *)
generateCssSelector(n) ==
    [tag |-> Element(n).tag, id |-> Element(n).id, classes |-> Element(n).classes]

(* getXPath for a child of <body>: id("...") when the element has an id,   *)
(* else the path with the 1-based index among same-tag siblings before it. *)
getXPath(n, ord) ==
    IF Element(n).id # 0
    THEN [byId |-> TRUE, id |-> Element(n).id, tag |-> "", index |-> 0]
    ELSE LET pos == CHOOSE i \in 1..Len(ord) : ord[i] = n
             before == {i \in 1..(pos - 1) : Element(ord[i]).tag = Element(n).tag}
         IN  [byId |-> FALSE, id |-> 0, tag |-> Element(n).tag,
              index |-> Cardinality(before) + 1]

(* isTransparent: the computed value is the string 'rgba(0, 0, 0, 0)'.     *)
isTransparent(bg) == bg.r = 0 /\ bg.g = 0 /\ bg.b = 0 /\ bg.a = 0

(* isLikelyMenu(el, style, rect, vw, vh); el carries the attributes and    *)
(* the offset box, style the computed style.                               *)
isLikelyMenu(el, style, vw, vh) ==
    /\ style.position \in {"fixed", "absolute"}
    /\ style.zIndex > MenuZIndex
    /\ isTransparent(style.backgroundColor)
    /\ el.offsetParent
    /\ el.height > MenuMinBox /\ el.width > MenuMinBox
    /\ 10 * el.width < 9 * vw /\ 10 * el.height < 9 * vh
    /\ \/ el.role \in {"menu", "navigation", "dialog"}
       \/ el.ariaModal
       \/ Range(el.classes) \cap {"menu", "nav", "sidebar", "drawer"} # {}
    /\ Range(el.classes) \cap {"backdrop", "overlay", "main"} = {}

(* colorToLightness, scaled by 255 * 10000 to stay in the integers.        *)
colorToLightness(c) == 2126 * c.r + 7152 * c.g + 722 * c.b

(* ------------------------------ state ---------------------------------- *)
VARIABLES
    order,                    \* the body's elements, in document order
    fixed,                    \* fixed[n]: data-darkmode-fixed (and the inline dark style) on n
    prompt,                   \* prompt[n]: the "Was this fix correct?" div of n is in the body
    htmlClass,                \* <html> carries the class universal-dark-mode
    geminiStyle,              \* the <style id="gemini-auto-dark-mode-styles">, or NoStyle
    patchStyles,              \* the <style data-darkmode-patch> elements of <head>, oldest first
    classifyElement,          \* window.classifyElement is defined
    scriptLoading,            \* the ai-model.js <script> has not fired onload yet
    timerQueue,               \* remaining ms of each pending setTimeout(fixTransparentMenus)
    debounceTimer,            \* remaining ms of the timeout debounceTimer names, or NoTimer
    realTimeDarkModeInterval, \* the 2 s analysis interval is scheduled
    liveIntervals,            \* the setInterval timers of the page that were not cleared
    lastKnownIssues,          \* issues of the last cycle that did downstream work
    darkModeEnabled,          \* storage.sync darkModeEnabled
    toggleMsg,                \* TOGGLE_DARK_MODE messages sent by the popup, not yet delivered
    sinceNotif,               \* history: ms since the last mutation notification, or NoNotif
    owed,                     \* history: bursts of notifications not yet followed by a rescan
    burstLen,                 \* history: notifications in the last burst (2 stands for more)
    cycle,                    \* history of the analysis cycles: of the last cycle, whether
                              \*   it ran to its end (completed), did downstream work
                              \*   (worked), left a readable element of its batch
                              \*   unclassified (skipped); of the last completed cycle, its
                              \*   serialised issues, whether they equal, as a set, those of
                              \*   the completed cycle before it (sameSet) and, as a list,
                              \*   those of the cycle before it since the last stop, or the
                              \*   empty list (sameList); stopped: stopRealTimeDarkMode ran
                              \*   after the last completed cycle
    lastEvent,                \* history: the handler that ran last
    popup,                    \* the popup's pending sendToBackgroundWithTimeout promise
    request,                  \* the runtime message of the trigger under way, or NoRequest
    stage,                    \* where the trigger's request is on its path
    fetches,                  \* history: what the trigger has put on the network so far
    proxyResponse,            \* the proxy's HTTP response on its way to background.js
    reply,                    \* what the handler passed to sendResponse
    triggers,                 \* history: the number of triggers so far
    fix,                      \* history of the trigger: the call failed or brought no
                              \*   patch (noPatch); a style block was inserted (injected)
    feedback,                 \* the page's localStorage 'darkmode_feedback': the ledger
    patternsStored,           \* the page's localStorage 'darkmode_patterns'
    successMetrics,           \* the page's localStorage 'darkmode_success'
    fixTracking,              \* the popup's localStorage 'darkmode_fix_tracking'
    learnEvent,               \* history: the learning operation that ran last
    feedbackLog,              \* the server's feedback_log.json
    answer,                   \* what the synthesis operation that ran last returned
    snapshot,                 \* the element a classification path is looking at
    emitted,                  \* the path that classified the snapshot last, and its tags
    theme,                    \* background.js and dark-theme.css in this tab: inserted;
                              \*   stage of applyThemeToAllTabs; isEnabled and hasClass as
                              \*   it read them; seen: the setting background.js acted on last
    calls,                    \* server.js: the POST /api/gemini calls of the clients, each
                              \*   with its stage and the status it was answered with
    msg,                      \* the runtime message delivered to the tab's content scripts
    responses                 \* history: the sendResponse calls the message has led to

pageVars == <<order, fixed, prompt, htmlClass, geminiStyle, patchStyles, classifyElement,
              scriptLoading, timerQueue, debounceTimer, realTimeDarkModeInterval, liveIntervals,
              lastKnownIssues, darkModeEnabled, toggleMsg, sinceNotif, owed, burstLen,
              cycle, lastEvent>>

quietPage == <<order, fixed, prompt, htmlClass, geminiStyle, patchStyles, classifyElement,
               scriptLoading, timerQueue, debounceTimer, realTimeDarkModeInterval, liveIntervals,
               lastKnownIssues, darkModeEnabled, toggleMsg, sinceNotif, owed, burstLen,
               cycle>>

fixVars == <<popup, request, stage, fetches, proxyResponse, reply, triggers, fix>>

contentVars == <<snapshot, emitted, msg, responses, theme, calls>>

synthVars == <<feedbackLog, answer>>

learnVars == <<feedback, patternsStored, successMetrics, fixTracking, learnEvent, synthVars,
               contentVars>>

vars == <<pageVars, fixVars, learnVars>>

(* ------------------------- computed style ------------------------------ *)
(* Style sheets are kept by what they do: the selectors they give a dark   *)
(* background, and the text they were built from.                          *)
StyleSheets == (IF geminiStyle = NoStyle THEN {} ELSE {geminiStyle})
               \cup {patchStyles[i].css : i \in 1..Len(patchStyles)}

Patched(n) == \E sheet \in StyleSheets : generateCssSelector(n) \in Range(sheet.targets)

(* getComputedStyle(el): the inline !important declarations of            *)
(* fixTransparentMenus win, then the rules of an applied patch, then the   *)
(* page's own style.                                                       *)
ComputedStyle(n) ==
    LET el == Element(n)
    IN  [position |-> el.position, zIndex |-> el.zIndex, visibility |-> el.visibility,
         backgroundColor |-> IF fixed[n] \/ Patched(n) THEN Rgb(34, 34, 34, 1)
                             ELSE el.backgroundColor,
         color |-> IF fixed[n] THEN Rgb(228, 230, 235, 1)
                   ELSE IF Patched(n) THEN Rgb(228, 230, 234, 1)
                   ELSE el.color]

(* --------------------- add-dark-class.js: patches ---------------------- *)
(* injectGeminiCssPatch(css): a non-string or empty css is ignored; else   *)
(* the style tag with the fixed id is removed and a new one appended.      *)
injectGeminiCssPatch(styleTag, css) ==
    IF css.text = "" THEN styleTag ELSE css

(* removeGeminiCssPatch(): removes the style tag (and the html class).     *)
removeGeminiCssPatch(styleTag) == NoStyle

(* ------------------ add-dark-class.js: the analysis -------------------- *)
(* The problems analyzeDarkModeIssues pushes for one element, in order.    *)
(* The problems analyzeDarkModeIssues pushes for one element: an element   *)
(* with an empty bounding box is skipped; 0.3 of the lightness scale is    *)
(* 765000 on the scale of colorToLightness.                                *)
problemsOf(el, style) ==
    LET bg == style.backgroundColor
    IN  IF el.width = 0 \/ el.height = 0 THEN <<>>
        ELSE
        (IF isLikelyMenu(el, style, Viewport.w, Viewport.h) /\ isTransparent(bg)
         THEN <<"transparent_menu_background">> ELSE <<>>)
        \o (IF ~isTransparent(bg)
               /\ Abs(colorToLightness(bg) - colorToLightness(style.color)) < 765000
            THEN <<"poor_contrast">> ELSE <<>>)
        \o (IF bg.r = 255 /\ bg.g = 255 /\ bg.b = 255
            THEN <<"white_background">> ELSE <<>>)
        \o (IF style.visibility = "hidden" /\ el.hasText
            THEN <<"hidden_content">> ELSE <<>>)

Problems(n) == problemsOf(Element(n), ComputedStyle(n))

Issue(n) ==
    [element |-> n, tag |-> Element(n).tag, classes |-> Element(n).classes,
     xpath |-> getXPath(n, order), problems |-> Problems(n),
     styles |-> ComputedStyle(n)]

(* The issues array of one cycle: one entry per element with a problem,    *)
(* in document order.                                                      *)
IssuesOf(ord) ==
    LET withProblems == SelectSeq(ord, LAMBDA n : Problems(n) # <<>>)
    IN  [i \in 1..Len(withProblems) |-> Issue(withProblems[i])]

(* JSON.stringify(issues): the DOM element serialises as {}.               *)
Serialize(issues) ==
    [i \in 1..Len(issues) |-> [issues[i] EXCEPT !.element = "{}"]]

(* JSON.stringify(issues) !== JSON.stringify(lastKnownIssues)             *)
issuesChangedAlways(issues, last) == TRUE

issuesChanged(issues, last) == Serialize(issues) # Serialize(last)

(* autoFixTransparentMenus(menuIssues): one rule block per issue, joined.  *)
autoFixPatch(menuIssues) ==
    [text |-> IF menuIssues = <<>> THEN "" ELSE "auto-fix",
     targets |-> [i \in 1..Len(menuIssues) |-> generateCssSelector(menuIssues[i].element)]]

(* --------------- add-dark-class.js: the mutation observer -------------- *)
(* The MutationObserver callback: clearTimeout(debounceTimer), then        *)
(* debounceTimer = setTimeout(fixTransparentMenus, 100).                   *)
observerCallbackNoClear(queue, handle) ==
    [queue |-> queue \cup {DebounceDelay}, handle |-> DebounceDelay]

observerCallback(queue, handle) ==
    [queue |-> (IF handle = NoTimer THEN queue ELSE queue \ {handle}) \cup {DebounceDelay},
     handle |-> DebounceDelay]

(* History of the notifications: one that comes DebounceDelay or more      *)
(* after the one before it (or is the first) opens a new burst.            *)
OpensBurst == sinceNotif = NoNotif \/ sinceNotif >= DebounceDelay

(* A timeout that is due runs before anything that happens later.          *)
NoDueTimer == 0 \notin timerQueue

(* The body changed (childList, subtree): the observer is notified as soon *)
(* as the running handler returns.                                         *)
BodyMutated ==
    /\ timerQueue' = observerCallback(timerQueue, debounceTimer).queue
    /\ debounceTimer' = observerCallback(timerQueue, debounceTimer).handle
    /\ sinceNotif' = 0
    /\ owed' = IF OpensBurst THEN owed + 1 ELSE owed
    /\ burstLen' = IF OpensBurst THEN 1 ELSE Min({burstLen + 1, 2})

(* ------------- add-dark-class.js: fixTransparentMenus ------------------ *)
Unfixed(ord) == {n \in Range(ord) : ~fixed[n]}

(* window.classifyElement(features) is defined by ai-model.js, a script    *)
(* loaded at run time: any verdict on any unmarked element is possible.    *)
classifyElementVerdicts(candidates) == SUBSET candidates

(* The elements one fixTransparentMenus pass fixes: unmarked elements the  *)
(* learned classifier (when defined) or else isLikelyMenu takes for a menu.*)
MenusToFix(useModel, verdict) ==
    IF useModel THEN verdict
    ELSE {n \in Unfixed(order) :
            isLikelyMenu(Element(n), ComputedStyle(n), Viewport.w, Viewport.h)}

(* What the pass writes: inline style and data-darkmode-fixed on each, and *)
(* a feedback prompt appended to the body for each.                        *)
fixTransparentMenusNoMark(menus) ==
    /\ fixed' = fixed
    /\ prompt' = [n \in Nodes |-> prompt[n] \/ n \in menus]

fixTransparentMenus(menus) ==
    /\ fixed' = [n \in Nodes |-> fixed[n] \/ n \in menus]
    /\ prompt' = [n \in Nodes |-> prompt[n] \/ n \in menus]

(* ------------- add-dark-class.js: analyzeDarkModeIssues ---------------- *)
(* One cycle.  Reading an element in bad throws; nothing in the function   *)
(* catches, so the forEach and the function end at the first such element. *)
analyzeDarkModeIssues(bad) ==
    LET badAt == {i \in 1..Len(order) : order[i] \in bad}
        issues == IssuesOf(order)
        changed == issuesChanged(issues, lastKnownIssues)
        menuIssues == SelectSeq(issues,
                        LAMBDA i : "transparent_menu_background" \in Range(i.problems))
    IN  IF badAt # {}
        THEN /\ UNCHANGED <<lastKnownIssues, geminiStyle>>
             /\ cycle' = [cycle EXCEPT !.completed = FALSE, !.worked = FALSE,
                            !.skipped = ({order[i] : i \in (Min(badAt) + 1)..Len(order)} \ bad # {})]
        ELSE /\ lastKnownIssues' = IF changed THEN issues ELSE lastKnownIssues
             /\ geminiStyle' = IF changed
                               THEN injectGeminiCssPatch(geminiStyle, autoFixPatch(menuIssues))
                               ELSE geminiStyle
             /\ cycle' = [completed |-> TRUE, worked |-> changed, skipped |-> FALSE,
                          issues |-> Serialize(issues),
                          sameSet |-> Range(Serialize(issues)) = Range(cycle.issues),
                          sameList |-> Serialize(issues) =
                                         (IF cycle.stopped THEN <<>> ELSE cycle.issues),
                          stopped |-> FALSE]

(* ------------------------------ Init ----------------------------------- *)
(* The page after both content scripts ran their top level: the html class *)
(* is added, the observer is set, the ai-model.js script is being loaded.  *)
InitPage ==
    /\ order \in {<<>>} \cup {<<n>> : n \in Nodes}
    /\ fixed = [n \in Nodes |-> FALSE]
    /\ prompt = [n \in Nodes |-> FALSE]
    /\ htmlClass = TRUE
    /\ geminiStyle = NoStyle
    /\ patchStyles = <<>>
    /\ classifyElement = FALSE
    /\ scriptLoading = TRUE
    /\ timerQueue = {}
    /\ debounceTimer = NoTimer
    /\ realTimeDarkModeInterval = FALSE
    /\ liveIntervals = 0
    /\ lastKnownIssues = <<>>
    /\ darkModeEnabled \in BOOLEAN
    /\ theme = [inserted |-> FALSE, stage |-> "idle", isEnabled |-> FALSE,
                hasClass |-> FALSE, seen |-> FALSE]
    /\ calls = [c \in Clients |-> [stage |-> "none", status |-> 0]]
    /\ toggleMsg = "none"
    /\ sinceNotif = NoNotif
    /\ owed = 0
    /\ burstLen = 0
    /\ cycle = [completed |-> FALSE, worked |-> FALSE, skipped |-> FALSE,
                issues |-> <<>>, sameSet |-> FALSE, sameList |-> FALSE, stopped |-> FALSE]
    /\ lastEvent = "other"

(* --------------------------- page actions ------------------------------ *)
(* The page inserts element n as first or last child of the body.          *)
InsertNode(n, front) ==
    /\ n \notin Range(order)
    /\ NoDueTimer
    /\ order' = IF front THEN <<n>> \o order ELSE Append(order, n)
    /\ BodyMutated
    /\ lastEvent' = "other"
    /\ UNCHANGED <<fixed, prompt, htmlClass, geminiStyle, patchStyles, classifyElement,
                   scriptLoading, realTimeDarkModeInterval, liveIntervals, lastKnownIssues,
                   darkModeEnabled, toggleMsg, cycle>>
    /\ UNCHANGED fixVars
    /\ UNCHANGED learnVars

(* The page removes element n from the body.                               *)
RemoveNode(n) ==
    /\ n \in Range(order)
    /\ NoDueTimer
    /\ order' = SelectSeq(order, LAMBDA m : m # n)
    /\ BodyMutated
    /\ lastEvent' = "other"
    /\ UNCHANGED <<fixed, prompt, htmlClass, geminiStyle, patchStyles, classifyElement,
                   scriptLoading, realTimeDarkModeInterval, liveIntervals, lastKnownIssues,
                   darkModeEnabled, toggleMsg, cycle>>
    /\ UNCHANGED fixVars
    /\ UNCHANGED learnVars

(* script.onload of ai-model.js: the first fixTransparentMenus pass.       *)
ModelScriptLoaded(defined, verdict) ==
    /\ scriptLoading
    /\ NoDueTimer
    /\ scriptLoading' = FALSE
    /\ classifyElement' = defined
    /\ LET menus == MenusToFix(defined, verdict)
       IN  /\ fixTransparentMenus(menus)
           /\ IF menus # {} THEN BodyMutated
              ELSE UNCHANGED <<timerQueue, debounceTimer, sinceNotif, owed, burstLen>>
    /\ lastEvent' = "other"
    /\ UNCHANGED <<order, htmlClass, geminiStyle, patchStyles, realTimeDarkModeInterval, liveIntervals,
                   lastKnownIssues, darkModeEnabled, toggleMsg, cycle>>
    /\ UNCHANGED fixVars
    /\ UNCHANGED learnVars

(* The debounce timeout runs: one rescan.  The prompts it appends change   *)
(* the body, which notifies the observer again.                            *)
DebounceFire(verdict) ==
    /\ 0 \in timerQueue
    /\ LET queue == timerQueue \ {0}
           handle == IF debounceTimer = 0 THEN NoTimer ELSE debounceTimer
           menus == MenusToFix(classifyElement, verdict)
       IN  /\ fixTransparentMenus(menus)
           /\ IF menus # {}
              THEN /\ timerQueue' = observerCallback(queue, handle).queue
                   /\ debounceTimer' = observerCallback(queue, handle).handle
                   /\ sinceNotif' = 0
                   /\ owed' = (owed - 1) + (IF OpensBurst THEN 1 ELSE 0)
                   /\ burstLen' = IF OpensBurst THEN 1 ELSE Min({burstLen + 1, 2})
              ELSE /\ timerQueue' = queue
                   /\ debounceTimer' = handle
                   /\ owed' = owed - 1
                   /\ UNCHANGED <<sinceNotif, burstLen>>
    /\ lastEvent' = "rescan"
    /\ UNCHANGED <<order, htmlClass, geminiStyle, patchStyles, classifyElement,
                   scriptLoading, realTimeDarkModeInterval, liveIntervals, lastKnownIssues,
                   darkModeEnabled, toggleMsg, cycle>>
    /\ UNCHANGED fixVars
    /\ UNCHANGED learnVars

(* setTimeout(() => promptDiv.remove(), 500): the prompt leaves the body.  *)
PromptRemoved(n) ==
    /\ prompt[n]
    /\ NoDueTimer
    /\ prompt' = [prompt EXCEPT ![n] = FALSE]
    /\ BodyMutated
    /\ lastEvent' = "other"
    /\ UNCHANGED <<order, fixed, htmlClass, geminiStyle, patchStyles, classifyElement,
                   scriptLoading, realTimeDarkModeInterval, liveIntervals, lastKnownIssues,
                   darkModeEnabled, toggleMsg, cycle>>
    /\ UNCHANGED fixVars
    /\ UNCHANGED learnVars

(* Time passes, at most up to the next timeout that becomes due.           *)
Advance ==
    /\ NoDueTimer
    /\ timerQueue # {} \/ (sinceNotif # NoNotif /\ sinceNotif <= DebounceDelay)
    /\ LET d == Min({TimeStep} \cup timerQueue)
       IN  /\ timerQueue' = {t - d : t \in timerQueue}
           /\ debounceTimer' = IF debounceTimer = NoTimer THEN NoTimer ELSE debounceTimer - d
           /\ sinceNotif' = IF sinceNotif = NoNotif THEN NoNotif
                            ELSE Min({sinceNotif + d, DebounceDelay + 1})
    /\ lastEvent' = "other"
    /\ UNCHANGED <<order, fixed, prompt, htmlClass, geminiStyle, patchStyles,
                   classifyElement, scriptLoading, realTimeDarkModeInterval, liveIntervals,
                   lastKnownIssues, darkModeEnabled, toggleMsg, owed, burstLen, cycle>>
    /\ UNCHANGED fixVars
    /\ UNCHANGED learnVars

(* popup.js, the toggle's change handler: stores the new setting and sends *)
(* TOGGLE_DARK_MODE to the tab.                                            *)
PopupToggle ==
    /\ toggleMsg = "none"
    /\ darkModeEnabled' = ~darkModeEnabled
    /\ toggleMsg' = IF darkModeEnabled THEN "off" ELSE "on"
    /\ lastEvent' = "other"
    /\ UNCHANGED <<order, fixed, prompt, htmlClass, geminiStyle, patchStyles,
                   classifyElement, scriptLoading, timerQueue, debounceTimer,
                   realTimeDarkModeInterval, liveIntervals, lastKnownIssues, sinceNotif, owed, burstLen, cycle>>
    /\ UNCHANGED fixVars
    /\ UNCHANGED learnVars

(* The page's timer table, kept as the number of interval timers that     *)
(* were set and not cleared; handle says whether realTimeDarkModeInterval  *)
(* holds one of them.                                                      *)
setInterval(live) == live + 1

clearInterval(live) == live - 1

(* initializeRealTimeDarkMode clears the interval it holds before it sets  *)
(* the next one.                                                           *)
initializeRealTimeDarkModeNoClear(handle, live) == setInterval(live)

initializeRealTimeDarkMode(handle, live) ==
    setInterval(IF handle THEN clearInterval(live) ELSE live)

stopRealTimeDarkMode(handle, live) == IF handle THEN clearInterval(live) ELSE live

(* TOGGLE_DARK_MODE with enabled = true, both listeners: the class is      *)
(* added; initializeRealTimeDarkMode replaces the interval and runs one    *)
(* cycle at once.                                                          *)
ToggleOn(bad) ==
    /\ toggleMsg = "on"
    /\ toggleMsg' = "none"
    /\ htmlClass' = TRUE
    /\ realTimeDarkModeInterval' = TRUE
    /\ liveIntervals' = initializeRealTimeDarkMode(realTimeDarkModeInterval, liveIntervals)
    /\ analyzeDarkModeIssues(bad)
    /\ lastEvent' = "cycle"
    /\ UNCHANGED <<order, fixed, prompt, patchStyles, classifyElement, scriptLoading,
                   timerQueue, debounceTimer, darkModeEnabled, sinceNotif, owed, burstLen>>
    /\ UNCHANGED fixVars
    /\ UNCHANGED learnVars

(* TOGGLE_DARK_MODE with enabled = false, both listeners: the class goes,  *)
(* removeGeminiCssPatch, stopRealTimeDarkMode.                             *)
ToggleOff ==
    /\ toggleMsg = "off"
    /\ toggleMsg' = "none"
    /\ htmlClass' = FALSE
    /\ geminiStyle' = removeGeminiCssPatch(geminiStyle)
    /\ realTimeDarkModeInterval' = FALSE
    /\ liveIntervals' = stopRealTimeDarkMode(realTimeDarkModeInterval, liveIntervals)
    /\ lastKnownIssues' = <<>>
    /\ cycle' = [cycle EXCEPT !.stopped = TRUE]
    /\ lastEvent' = "toggle_off"
    /\ UNCHANGED <<order, fixed, prompt, patchStyles, classifyElement, scriptLoading,
                   timerQueue, debounceTimer, darkModeEnabled, sinceNotif, owed, burstLen>>
    /\ UNCHANGED fixVars
    /\ UNCHANGED learnVars

(* One tick of the 2 s interval.                                           *)
IntervalTick(bad) ==
    /\ realTimeDarkModeInterval
    /\ analyzeDarkModeIssues(bad)
    /\ lastEvent' = "cycle"
    /\ UNCHANGED <<order, fixed, prompt, htmlClass, patchStyles, classifyElement,
                   scriptLoading, timerQueue, debounceTimer, realTimeDarkModeInterval, liveIntervals,
                   darkModeEnabled, toggleMsg, sinceNotif, owed, burstLen>>
    /\ UNCHANGED fixVars
    /\ UNCHANGED learnVars

(* The css texts a popup may send, each written for one element.           *)
InjectableCss ==
    {[text |-> t, targets |-> <<generateCssSelector(n)>>] : t \in {"cssA", "cssB"}, n \in Nodes}

(* 'inject-darkmode-css', both listeners: add-dark-class.js replaces its   *)
(* style tag; content.js creates a style element and appends it to head.   *)
InjectCss(css, node) ==
    /\ Len(patchStyles) < MaxPatches
    /\ geminiStyle' = injectGeminiCssPatch(geminiStyle, css)
    /\ patchStyles' = Append(patchStyles, [css |-> css, source |-> "gemini", elementInfo |-> node])
    /\ lastEvent' = "inject"
    /\ UNCHANGED <<order, fixed, prompt, htmlClass, classifyElement, scriptLoading,
                   timerQueue, debounceTimer, realTimeDarkModeInterval, liveIntervals, lastKnownIssues,
                   darkModeEnabled, toggleMsg, sinceNotif, owed, burstLen, cycle>>
    /\ UNCHANGED fixVars
    /\ UNCHANGED learnVars

(* ------------------------- the fix request path ------------------------ *)
NoRequest == [type |-> "none", node |-> 0]

TriggerTypes == {"ANALYZE_AND_FIX_ELEMENT", "AUTO_FIX_DARK_MODE", "CHAT_WITH_GEMINI"}

(* The text of candidates[0].content.parts[0].text, kept by what           *)
(* callGeminiAPI reads of it: whether JSON.parse accepts it, the parsed    *)
(* object's darkModeCss and message, the body of a ``` fence in it.        *)
Content(raw, json, darkModeCss, message, fenced) ==
    [raw |-> raw, json |-> json, darkModeCss |-> darkModeCss, message |-> message,
     fenced |-> fenced]

NoContent == Content("none", FALSE, "", "", "")

Contents ==
    { Content("{darkModeCss}", TRUE, "cssA", "", ""),
      Content("{message}", TRUE, "", "prose", ""),
      Content("prose", FALSE, "", "", ""),
      Content("fenced", FALSE, "", "", "cssA"),
      Content("", FALSE, "", "", "") }

(* The JSON bodies the generative endpoint may answer with.                *)
GeminiData ==
    {[candidates |-> c, darkModeCss |-> ""] : c \in Contents}
    \cup {[candidates |-> NoContent, darkModeCss |-> d] : d \in {"", "cssA"}}

NoData == [candidates |-> NoContent, darkModeCss |-> ""]

(* An HTTP exchange as its caller sees it: fetch resolved (reached), the   *)
(* status was 2xx (ok), the JSON body.                                     *)
HttpResponse(reached, ok, data) == [reached |-> reached, ok |-> ok, data |-> data]

NoResponse == HttpResponse(FALSE, FALSE, NoData)

GeminiResponses ==
    {HttpResponse(FALSE, FALSE, NoData), HttpResponse(TRUE, FALSE, NoData)}
    \cup {HttpResponse(TRUE, TRUE, d) : d \in GeminiData}

(* The response carries a patch: the structured payload, or css in a fence.*)
CarriesPatch(resp) ==
    /\ resp.reached /\ resp.ok
    /\ \/ resp.data.candidates.json /\ resp.data.candidates.darkModeCss # ""
       \/ resp.data.candidates.fenced # ""
       \/ resp.data.candidates = NoContent /\ resp.data.darkModeCss # ""

(* What callGeminiAPI gives its caller: it threw, null, a string, or the   *)
(* parsed object (its message and cssPatch members).                       *)
Result(kind, str, message, cssPatch) ==
    [kind |-> kind, str |-> str, message |-> message, cssPatch |-> cssPatch]

Truthy(r) == r.kind = "object" \/ (r.kind = "string" /\ r.str # "")

(* callGeminiAPI after its fetch: resp is what the proxy answered.         *)
callGeminiAPI(resp, expectStructuredResponse) ==
    IF ~resp.reached \/ ~resp.ok THEN Result("threw", "", "", "")
    ELSE IF resp.data.candidates # NoContent
    THEN LET content == resp.data.candidates
         IN  IF content.json
             THEN IF content.darkModeCss # "" THEN Result("string", content.darkModeCss, "", "")
                  ELSE IF expectStructuredResponse THEN Result("object", "", content.message, "")
                  ELSE IF content.message # "" THEN Result("string", content.message, "", "")
                  ELSE Result("string", content.raw, "", "")
             ELSE IF expectStructuredResponse THEN Result("object", "", content.raw, "")
                  ELSE IF content.fenced # "" THEN Result("string", content.fenced, "", "")
                  ELSE Result("string", content.raw, "", "")
    ELSE IF resp.data.darkModeCss # "" THEN Result("string", resp.data.darkModeCss, "", "")
    ELSE Result("null", "", "", "")

Reply(success, cssPatch, message) ==
    [success |-> success, cssPatch |-> cssPatch, message |-> message]

NoReply == Reply(FALSE, "", "none")

handleAutoFixDarkMode(resp) ==
    LET cssPatch == callGeminiAPI(resp, FALSE)
    IN  IF cssPatch.kind = "threw" THEN Reply(FALSE, "", "error")
        ELSE IF Truthy(cssPatch) THEN Reply(TRUE, cssPatch.str, "")
        ELSE Reply(FALSE, "", "No CSS generated")

handleAnalyzeAndFixElement(resp) ==
    LET cssPatch == callGeminiAPI(resp, FALSE)
    IN  IF cssPatch.kind = "threw" THEN Reply(FALSE, "", "error")
        ELSE IF Truthy(cssPatch) THEN Reply(TRUE, cssPatch.str, "")
        ELSE Reply(TRUE, "", "fallback")

handleGeminiChat(resp) ==
    LET response == callGeminiAPI(resp, TRUE)
    IN  IF response.kind = "threw" THEN Reply(FALSE, "", "error")
        ELSE IF Truthy(response)
        THEN Reply(TRUE, response.cssPatch,
                   IF response.kind = "string" THEN response.str
                   ELSE IF response.message # "" THEN response.message ELSE "[object]")
        ELSE Reply(FALSE, "", "trouble")

(* The background listener's dispatch on message.type.                     *)
backgroundHandler(type, resp) ==
    CASE type = "AUTO_FIX_DARK_MODE" -> handleAutoFixDarkMode(resp)
      [] type = "ANALYZE_AND_FIX_ELEMENT" -> handleAnalyzeAndFixElement(resp)
      [] OTHER -> handleGeminiChat(resp)

(* fetch(url, {method: 'POST', ...}): one request on the network.          *)
fetchWithRetry(log, to) ==
    Append(Append(log, [to |-> to, signal |-> "request"]), [to |-> to, signal |-> "request"])

fetch(log, to) == Append(log, [to |-> to, signal |-> "request"])

RequestsTo(to) == Cardinality({i \in 1..Len(fetches) : fetches[i].to = to})

(* What the style block a text is written into does for node n: css gives  *)
(* the element a dark background, any other text is no rule at all.        *)
StyleOf(text, n) ==
    [text |-> text,
     targets |-> IF text \in {"cssA", "cssB"} THEN <<generateCssSelector(n)>> ELSE <<>>]

InitFix ==
    /\ popup = "idle"
    /\ request = NoRequest
    /\ stage = "idle"
    /\ fetches = <<>>
    /\ proxyResponse = NoResponse
    /\ reply = NoReply
    /\ triggers = 0
    /\ fix = [noPatch |-> FALSE, injected |-> FALSE]

(* The popup (or another extension page) sends a trigger to background.js  *)
(* through sendToBackgroundWithTimeout.                                    *)
PopupTrigger(type, n) ==
    /\ stage = "idle" /\ popup = "idle"
    /\ triggers < MaxRequests
    /\ Len(patchStyles) < MaxPatches
    /\ popup' = "waiting"
    /\ request' = [type |-> type, node |-> n]
    /\ stage' = "background"
    /\ fetches' = <<>>
    /\ proxyResponse' = NoResponse
    /\ reply' = NoReply
    /\ triggers' = triggers + 1
    /\ fix' = [noPatch |-> FALSE, injected |-> FALSE]
    /\ lastEvent' = "other"
    /\ UNCHANGED quietPage
    /\ UNCHANGED learnVars

(* callGeminiAPI: its one fetch to the proxy; when the proxy cannot be     *)
(* reached fetch rejects and the handler's catch answers.                  *)
BackgroundFetch(reachable) ==
    /\ stage = "background"
    /\ fetches' = fetch(fetches, "proxy")
    /\ IF reachable
       THEN /\ stage' = "proxy"
            /\ UNCHANGED <<reply, fix>>
       ELSE /\ stage' = "replied"
            /\ reply' = backgroundHandler(request.type, NoResponse)
            /\ fix' = [fix EXCEPT !.noPatch = TRUE]
    /\ lastEvent' = "other"
    /\ UNCHANGED <<popup, request, proxyResponse, triggers>>
    /\ UNCHANGED quietPage
    /\ UNCHANGED learnVars

(* A URL string: whether new URL() accepts it, and its hostname.           *)
Url(valid, hostname) == [valid |-> valid, hostname |-> hostname]

(* window.location.href of the page the content scripts run in.            *)
PageUrl == Url(TRUE, "site.example")

(* The fields of a POST /api/gemini body that the handler logs.            *)
RequestBody(tag, classes, description) ==
    [tag |-> tag, classes |-> classes, description |-> description]

(* callGeminiAPI's requestBody: the description is the prompt, not a URL.  *)
ExtensionBody == RequestBody("auto-generated", <<>>, Url(FALSE, ""))

(* A client of the proxy that reports a <nav class="menu"> and gives the   *)
(* page's URL as description.                                              *)
NavBody == RequestBody("nav", <<"menu">>, PageUrl)

(* feedbackEntry of POST /api/gemini.                                      *)
LogEntry(body, patch) ==
    [tag |-> body.tag, classes |-> body.classes, description |-> body.description,
     patch |-> patch]

(* The body each client of the proxy posts.                                *)
ClientBody(c) ==
    CASE c = 1 -> ExtensionBody
      [] c = 2 -> NavBody
      [] OTHER -> RequestBody("div", <<"dropdown">>, PageUrl)

(* server.js, POST /api/gemini: 500 without an API key, else one fetch to  *)
(* the generative endpoint.                                                *)
ServerReceive(hasKey) ==
    /\ stage = "proxy"
    /\ IF hasKey
       THEN /\ fetches' = fetch(fetches, "gemini")
            /\ stage' = "gemini"
            /\ UNCHANGED <<proxyResponse, fix>>
       ELSE /\ proxyResponse' = HttpResponse(TRUE, FALSE, NoData)
            /\ stage' = "proxyReplied"
            /\ fix' = [fix EXCEPT !.noPatch = TRUE]
            /\ UNCHANGED fetches
    /\ lastEvent' = "other"
    /\ UNCHANGED <<popup, request, reply, triggers>>
    /\ UNCHANGED quietPage
    /\ UNCHANGED learnVars

(* The endpoint answers; server.js logs a 2xx body's darkModeCss with the  *)
(* request and passes the body on, and turns anything else into a 500.     *)
GeminiRespond(g) ==
    /\ stage = "gemini"
    /\ proxyResponse' = IF g.reached /\ g.ok THEN HttpResponse(TRUE, TRUE, g.data)
                        ELSE HttpResponse(TRUE, FALSE, NoData)
    /\ stage' = "proxyReplied"
    /\ fix' = [fix EXCEPT !.noPatch = fix.noPatch \/ ~CarriesPatch(g)]
    /\ feedbackLog' = IF g.reached /\ g.ok
                      THEN Append(feedbackLog, LogEntry(ExtensionBody, g.data.darkModeCss))
                      ELSE feedbackLog
    /\ lastEvent' = "other"
    /\ UNCHANGED <<popup, request, fetches, reply, triggers>>
    /\ UNCHANGED quietPage
    /\ UNCHANGED <<feedback, patternsStored, successMetrics, fixTracking, learnEvent, answer>>
    /\ UNCHANGED contentVars

(* callGeminiAPI resumes with the proxy's response; the handler calls      *)
(* sendResponse.                                                           *)
BackgroundRespond ==
    /\ stage = "proxyReplied"
    /\ reply' = backgroundHandler(request.type, proxyResponse)
    /\ stage' = "replied"
    /\ lastEvent' = "other"
    /\ UNCHANGED <<popup, request, fetches, proxyResponse, triggers, fix>>
    /\ UNCHANGED quietPage
    /\ UNCHANGED learnVars

(* sendToBackgroundWithTimeout: the timeout rejects the promise; nothing   *)
(* is sent to background.js or further.                                    *)
PopupTimeout ==
    /\ popup = "waiting"
    /\ popup' = "timedout"
    /\ fix' = [fix EXCEPT !.noPatch = TRUE]
    /\ lastEvent' = "other"
    /\ UNCHANGED <<request, stage, fetches, proxyResponse, reply, triggers>>
    /\ UNCHANGED quietPage
    /\ UNCHANGED learnVars

(* sendToBackgroundWithTimeout, the response callback: resolve(response)   *)
(* settles the promise only while the timeout has not rejected it.         *)
resolvesAfterReject(popupState) == TRUE

resolves(popupState) == popupState = "waiting"

(* The response reaches the sender.  performAutomaticElementAnalysis sends *)
(* 'inject-darkmode-css' when it has a cssPatch; sendChatToAI shows        *)
(* response.reply; after the timeout the response resolves nothing.        *)
PopupReceive ==
    /\ stage = "replied"
    /\ stage' = "idle"
    /\ popup' = "idle"
    /\ request' = NoRequest
    /\ IF resolves(popup) /\ request.type = "ANALYZE_AND_FIX_ELEMENT" /\ reply.cssPatch # ""
       THEN /\ geminiStyle' = injectGeminiCssPatch(geminiStyle, StyleOf(reply.cssPatch, request.node))
            /\ patchStyles' = Append(patchStyles,
                                     [css |-> StyleOf(reply.cssPatch, request.node),
                                      source |-> "gemini", elementInfo |-> request.node])
            /\ fix' = [fix EXCEPT !.injected = TRUE]
            /\ lastEvent' = "inject"
       ELSE /\ UNCHANGED <<geminiStyle, patchStyles, fix>>
            /\ lastEvent' = "other"
    /\ UNCHANGED <<order, fixed, prompt, htmlClass, classifyElement, scriptLoading,
                   timerQueue, debounceTimer, realTimeDarkModeInterval, liveIntervals, lastKnownIssues,
                   darkModeEnabled, toggleMsg, sinceNotif, owed, burstLen, cycle>>
    /\ UNCHANGED <<fetches, proxyResponse, reply, triggers>>
    /\ UNCHANGED learnVars

(* ------------------- ai-learning.js: the learning engine --------------- *)
(* Confidences are kept as fractions, computed as the code computes them.  *)
Rat(n, d) == [num |-> n, den |-> d]

RatLeq(a, b) == a.num * b.den <= b.num * a.den

RatLess(a, b) == a.num * b.den < b.num * a.den

RatEq(a, b) == a.num * b.den = b.num * a.den

RatMin(a, b) == IF RatLeq(a, b) THEN a ELSE b

RatAdd(a, b) == Rat(a.num * b.den + b.num * a.den, a.den * b.den)

extractDomain(url) == IF url.valid THEN url.hostname ELSE "unknown"

(* The elements the accuracy prompt is answered on (two <ul class="menu">  *)
(* of different outerHTML), the one the popup is used on, and what         *)
(* elementData says of them.                                               *)
FeedbackElements == {1, 4}

SelectedElements == {1}

ElementData(n) == [tag |-> Element(n).tag, classes |-> Element(n).classes, outerHTML |-> n]

(* el.tagName of an HTML element is the upper-case tag.                    *)
tagName(n) == CASE Element(n).tag = "ul" -> "UL"
                [] Element(n).tag = "div" -> "DIV"
                [] OTHER -> "NAV"

(* `${tag}.${classes.join('.')}`                                           *)
elementKey(tag, classes) == <<tag>> \o classes

(* An entry of the ledger; "" and 0 stand for a member that is not set.    *)
FeedbackEntry(outerHTML, tag, classes, description, isFixed, appliedCSS, userRating) ==
    [outerHTML |-> outerHTML, tag |-> tag, classes |-> classes, url |-> PageUrl,
     description |-> description, fixed |-> isFixed, appliedCSS |-> appliedCSS,
     userRating |-> userRating]

categorizeProlem(f) ==
    CASE f.description \in {"transparent", "invisible"} -> "transparent_background"
      [] f.description \in {"contrast", "hard to read"} -> "poor_contrast"
      [] f.description \in {"menu", "dropdown"} -> "menu_issues"
      [] f.description \in {"text", "font"} -> "text_visibility"
      [] OTHER -> "general_dark_mode"

(* The keys of a JavaScript object, in the order they were first set.      *)
RECURSIVE InsertionOrder(_)
InsertionOrder(keys) ==
    IF keys = <<>> THEN <<>>
    ELSE LET front == InsertionOrder(SubSeq(keys, 1, Len(keys) - 1))
             last == keys[Len(keys)]
         IN  IF last \in Range(front) THEN front ELSE Append(front, last)

(* extractPatterns(feedbackData)                                           *)
extractPatterns(feedbackData) ==
    LET fixedOnes == SelectSeq(feedbackData, LAMBDA f : f.fixed)
        keyOf(f) == elementKey(f.tag, f.classes)
        keys == InsertionOrder([i \in 1..Len(fixedOnes) |-> keyOf(fixedOnes[i])])
        ofKey(k) == SelectSeq(fixedOnes, LAMBDA f : keyOf(f) = k)
        withCss(k) == SelectSeq(ofKey(k), LAMBDA f : f.appliedCSS # "")
        problems == InsertionOrder([i \in 1..Len(feedbackData) |->
                                        categorizeProlem(feedbackData[i])])
        domains == InsertionOrder([i \in 1..Len(feedbackData) |->
                                        extractDomain(feedbackData[i].url)])
    IN  [commonProblems |->
            [i \in 1..Len(problems) |->
                [key |-> problems[i],
                 count |-> Len(SelectSeq(feedbackData,
                               LAMBDA f : categorizeProlem(f) = problems[i]))]],
         successfulFixes |->
            [i \in 1..Len(keys) |->
                [key |-> keys[i], count |-> Len(ofKey(keys[i])),
                 cssFixes |-> [j \in 1..Len(withCss(keys[i])) |->
                                  withCss(keys[i])[j].appliedCSS]]],
         websitePatterns |->
            [i \in 1..Len(domains) |->
                [key |-> domains[i],
                 issues |-> SelectSeq(feedbackData,
                               LAMBDA f : extractDomain(f.url) = domains[i])]],
         confidence |->
            [i \in 1..Len(keys) |->
                [key |-> keys[i],
                 value |-> RatMin(Rat(Len(ofKey(keys[i])), MaxConfidenceFixes), Rat(1, 1))]]]

(* patterns.confidence[key]: the value, or undefined (has = FALSE).        *)
Lookup(map, key) ==
    IF \E i \in 1..Len(map) : map[i].key = key
    THEN [has |-> TRUE, at |-> CHOOSE i \in 1..Len(map) : map[i].key = key]
    ELSE [has |-> FALSE, at |-> 0]

(* The confidence of a key as the ledger gives it; 0 when there is none.   *)
confidenceOf(feedbackData, key) ==
    LET conf == extractPatterns(feedbackData).confidence
    IN  IF Lookup(conf, key).has THEN conf[Lookup(conf, key).at].value ELSE Rat(0, 1)

NoPatterns == [present |-> FALSE, value |-> extractPatterns(<<>>)]

(* analyzeFeedbackPatterns(): patterns from the ledger, stored.            *)
analyzeFeedbackPatterns(feedbackData) == [present |-> TRUE, value |-> extractPatterns(feedbackData)]

(* updateFeedbackWithSuccess: the first entry of the same tag and classes  *)
(* is overwritten; without one the ledger stays as it is.                  *)
updateFeedbackWithSuccess(feedbackData, elementData, appliedCSS, userRating) ==
    LET matching == {i \in 1..Len(feedbackData) :
                        /\ feedbackData[i].tag = elementData.tag
                        /\ feedbackData[i].classes = elementData.classes}
    IN  IF matching = {} THEN feedbackData
        ELSE [feedbackData EXCEPT ![Min(matching)] =
                 [@ EXCEPT !.fixed = (userRating = "up"), !.appliedCSS = appliedCSS,
                           !.userRating = userRating]]

(* saveAccuracyFeedback(el, isFixed): the entry of the same outerHTML and  *)
(* url gets the verdict, else a new entry is pushed.                       *)
saveAccuracyFeedbackNegated(arr, n, isFixed) ==
    LET found == {i \in 1..Len(arr) : arr[i].outerHTML = n /\ arr[i].url = PageUrl}
    IN  IF found # {}
        THEN [arr EXCEPT ![Min(found)] = [@ EXCEPT !.fixed = ~isFixed]]
        ELSE Append(arr, FeedbackEntry(n, tagName(n), Element(n).classes, "", isFixed, "", ""))

saveAccuracyFeedback(arr, n, isFixed) ==
    LET found == {i \in 1..Len(arr) : arr[i].outerHTML = n /\ arr[i].url = PageUrl}
    IN  IF found # {}
        THEN [arr EXCEPT ![Min(found)] = [@ EXCEPT !.fixed = isFixed]]
        ELSE Append(arr, FeedbackEntry(n, tagName(n), Element(n).classes, "", isFixed, "", ""))

calculateEffectivenessScore(userRating) ==
    CASE userRating = "up" -> Rat(1, 1)
      [] userRating = "down" -> Rat(0, 1)
      [] userRating = "neutral" -> Rat(1, 2)
      [] OTHER -> Rat(3, 10)

(* ------------------------- synthesis: server.js ------------------------ *)
(* The CSS texts of the model are whole rules of some forty characters;    *)
(* "" is the empty text.                                                   *)
cssLength(css) == IF css = "" THEN 0 ELSE 40

CssTexts == {"cssA", "cssB"}

(* Array.prototype.sort((a, b) => b.count - a.count): descending, stable.  *)
RECURSIVE SortByCount(_)
SortByCount(entries) ==
    IF entries = <<>> THEN <<>>
    ELSE LET best == CHOOSE i \in 1..Len(entries) :
                        /\ \A j \in 1..Len(entries) : entries[j].count <= entries[i].count
                        /\ \A j \in 1..(i - 1) : entries[j].count < entries[i].count
             rest == [j \in 1..(Len(entries) - 1) |->
                         IF j < best THEN entries[j] ELSE entries[j + 1]]
         IN  <<entries[best]>> \o SortByCount(rest)

(* The frequency object built from a list of strings: one entry per        *)
(* distinct string, in the order of first occurrence.                      *)
Frequency(strings) ==
    LET keys == InsertionOrder(strings)
    IN  [i \in 1..Len(keys) |->
            [key |-> keys[i],
             count |-> Cardinality({j \in 1..Len(strings) : strings[j] = keys[i]})]]

(* server.js extractCSSRules: the rules of a text.                         *)
serverExtractCSSRules(css) == IF css = "" THEN <<>> ELSE <<css>>

RECURSIVE Flatten(_)
Flatten(seqs) == IF seqs = <<>> THEN <<>> ELSE Head(seqs) \o Flatten(Tail(seqs))

(* analyzeHistoricalPatterns(feedbackData), without the temporal trends.   *)
analyzeHistoricalPatterns(feedbackData) ==
    LET withClasses == SelectSeq(feedbackData, LAMBDA e : e.classes # <<>>)
        selectors == InsertionOrder([i \in 1..Len(withClasses) |-> withClasses[i].classes])
        patched == SelectSeq(feedbackData, LAMBDA e : e.patch # "")
        withUrl == SelectSeq(feedbackData, LAMBDA e : e.description.valid)
        domains == InsertionOrder([i \in 1..Len(withUrl) |-> withUrl[i].description.hostname])
        withTag == SelectSeq(feedbackData, LAMBDA e : e.tag # "")
        tags == InsertionOrder([i \in 1..Len(withTag) |-> withTag[i].tag])
        attempts(t) == Len(SelectSeq(withTag, LAMBDA e : e.tag = t))
        successes(t) == Len(SelectSeq(withTag, LAMBDA e : e.tag = t /\ cssLength(e.patch) > 10))
    IN  [commonSelectors |->
            [i \in 1..Len(selectors) |->
                LET mine == SelectSeq(withClasses, LAMBDA e : e.classes = selectors[i])
                    fixing == SelectSeq(mine, LAMBDA e : e.patch # "")
                IN  [key |-> selectors[i], count |-> Len(mine),
                     fixes |-> [j \in 1..Len(fixing) |-> fixing[j].patch]]],
         successfulCSSRules |->
            Frequency(Flatten([i \in 1..Len(patched) |->
                                  serverExtractCSSRules(patched[i].patch)])),
         domainSpecificPatterns |->
            [i \in 1..Len(domains) |->
                [key |-> domains[i],
                 issues |-> SelectSeq(withUrl,
                               LAMBDA e : e.description.hostname = domains[i])]],
         elementTypeEffectiveness |->
            [i \in 1..Len(tags) |->
                [key |-> tags[i], totalAttempts |-> attempts(tags[i]),
                 successfulFixes |-> successes(tags[i]),
                 effectivenessRatio |-> Rat(successes(tags[i]), attempts(tags[i]))]]]

(* findMostFrequentFix(fixes); "" stands for null.                         *)
findFirstFix(fixes) == IF fixes = <<>> THEN "" ELSE fixes[1]

findMostFrequentFix(fixes) ==
    IF fixes = <<>> THEN "" ELSE SortByCount(Frequency(fixes))[1].key

(* generateBasicDarkModeCSS(elementData): the rule of the element's type.  *)
generateBasicDarkModeCSS(elementData) ==
    CASE elementData.tag \in {"div", "section"} ->
           IF \E i \in 1..Len(elementData.classes) :
                 elementData.classes[i] \in {"menu", "dropdown"}
           THEN <<"menuRule">> ELSE <<>>
      [] elementData.tag = "nav" -> <<"navRule">>
      [] elementData.tag = "button" -> <<"buttonRule">>
      [] elementData.tag = "input" -> <<"inputRule">>
      [] OTHER -> <<>>

(* generateSmartCSS with the sum returned as it is.                        *)
generateSmartCSSUnclamped(elementData, pageContext, patterns) ==
    LET sel == Lookup(patterns.commonSelectors, elementData.classes)
        mostCommonFix ==
            IF /\ elementData.classes # <<>>
               /\ sel.has
               /\ patterns.commonSelectors[sel.at].count >= 3
            THEN findMostFrequentFix(patterns.commonSelectors[sel.at].fixes)
            ELSE ""
        classConfidence == IF mostCommonFix # "" THEN Rat(8, 10) ELSE Rat(0, 1)
        eff == Lookup(patterns.elementTypeEffectiveness, elementData.tag)
        typeConfidence ==
            IF /\ elementData.tag # ""
               /\ eff.has
               /\ RatLess(Rat(7, 10), patterns.elementTypeEffectiveness[eff.at].effectivenessRatio)
            THEN RatAdd(classConfidence, Rat(3, 10))
            ELSE classConfidence
        dom == Lookup(patterns.domainSpecificPatterns, pageContext.domain)
        confidence ==
            IF /\ pageContext.domain # ""
               /\ dom.has
               /\ Len(patterns.domainSpecificPatterns[dom.at].issues) >= 2
            THEN RatAdd(typeConfidence, Rat(2, 10))
            ELSE typeConfidence
        rules == IF mostCommonFix # "" THEN <<mostCommonFix>>
                 ELSE IF RatLess(Rat(3, 10), confidence)
                      THEN generateBasicDarkModeCSS(elementData)
                      ELSE <<>>
    IN  [rules |-> rules, confidence |-> confidence,
         learned |-> mostCommonFix # "", sum |-> confidence]

(* generateSmartCSS(elementData, pageContext, patterns): rules is the list *)
(* that is joined; learned: it holds the most frequent fix of the class    *)
(* key; sum: the confidence before Math.min.                               *)
generateSmartCSS(elementData, pageContext, patterns) ==
    LET sel == Lookup(patterns.commonSelectors, elementData.classes)
        mostCommonFix ==
            IF /\ elementData.classes # <<>>
               /\ sel.has
               /\ patterns.commonSelectors[sel.at].count >= 3
            THEN findMostFrequentFix(patterns.commonSelectors[sel.at].fixes)
            ELSE ""
        classConfidence == IF mostCommonFix # "" THEN Rat(8, 10) ELSE Rat(0, 1)
        eff == Lookup(patterns.elementTypeEffectiveness, elementData.tag)
        typeConfidence ==
            IF /\ elementData.tag # ""
               /\ eff.has
               /\ RatLess(Rat(7, 10), patterns.elementTypeEffectiveness[eff.at].effectivenessRatio)
            THEN RatAdd(classConfidence, Rat(3, 10))
            ELSE classConfidence
        dom == Lookup(patterns.domainSpecificPatterns, pageContext.domain)
        confidence ==
            IF /\ pageContext.domain # ""
               /\ dom.has
               /\ Len(patterns.domainSpecificPatterns[dom.at].issues) >= 2
            THEN RatAdd(typeConfidence, Rat(2, 10))
            ELSE typeConfidence
        rules == IF mostCommonFix # "" THEN <<mostCommonFix>>
                 ELSE IF RatLess(Rat(3, 10), confidence)
                      THEN generateBasicDarkModeCSS(elementData)
                      ELSE <<>>
    IN  [rules |-> rules, confidence |-> RatMin(confidence, Rat(1, 1)),
         learned |-> mostCommonFix # "", sum |-> confidence]

NoSmartCSS == [rules |-> <<>>, confidence |-> Rat(0, 1), learned |-> FALSE, sum |-> Rat(0, 1)]

(* What a synthesis operation returned: the operation, the source (or      *)
(* status) of the answer, the rules of its css, its confidence (0 when the *)
(* answer has none), and what generateSmartCSS gave the endpoint.          *)
Answer(op, elementData, source, css, confidence, smartCSS) ==
    [op |-> op, elementData |-> elementData, source |-> source, css |-> css,
     confidence |-> confidence, smartCSS |-> smartCSS]

NoElementData == [tag |-> "", classes |-> <<>>]

NoAnswer == Answer("none", NoElementData, "none", <<>>, Rat(0, 1), NoSmartCSS)

(* POST /api/smart-css-generation.                                         *)
smartCssGeneration(elementData, pageContext, logged) ==
    LET smartCSS == generateSmartCSS(elementData, pageContext,
                                     analyzeHistoricalPatterns(logged))
    IN  IF RatLess(Rat(6, 10), smartCSS.confidence)
        THEN Answer("smart", elementData, "pattern_based", smartCSS.rules,
                    smartCSS.confidence, smartCSS)
        ELSE Answer("smart", elementData, "fallback_to_gemini", <<>>, Rat(0, 1), smartCSS)

(* ------------------------- synthesis: ai-learning.js ------------------- *)
learningThreshold == Rat(7, 10)

(* ai-learning.js extractCSSRules: the rules of a text.                    *)
extractCSSRules(css) == IF css = "" THEN <<>> ELSE <<css>>

(* findMostSuccessfulCSS(cssFixes): the rules that are joined; isNull when *)
(* it returns null.                                                        *)
findMostSuccessfulCSS(cssFixes) ==
    IF cssFixes = <<>> THEN [isNull |-> TRUE, rules |-> <<>>]
    ELSE LET ruleFrequency == Frequency(Flatten([i \in 1..Len(cssFixes) |->
                                                    extractCSSRules(cssFixes[i])]))
             popularRules == SortByCount(SelectSeq(ruleFrequency, LAMBDA r : r.count >= 2))
         IN  [isNull |-> FALSE,
              rules |-> [i \in 1..Len(popularRules) |-> popularRules[i].key]]

findCommonProblemsInDomain(issues) ==
    LET problemCounts == Frequency([i \in 1..Len(issues) |-> categorizeProlem(issues[i])])
        common == SortByCount(SelectSeq(problemCounts, LAMBDA p : p.count >= 2))
    IN  [i \in 1..Len(common) |-> common[i].key]

(* generateDomainSpecificCSS(commonProblems): one block per known problem. *)
generateDomainSpecificCSS(commonProblems) ==
    SelectSeq(commonProblems,
              LAMBDA p : p \in {"transparent_background", "poor_contrast", "menu_issues"})

analyzeDomainPattern(domainData) ==
    LET totalIssues == Len(domainData.issues)
        fixedIssues == Len(SelectSeq(domainData.issues, LAMBDA f : f.fixed))
    IN  IF totalIssues < 3 THEN [confidence |-> Rat(0, 1), recommendedCSS |-> <<>>]
        ELSE [confidence |-> Rat(fixedIssues, totalIssues),
              recommendedCSS |->
                  generateDomainSpecificCSS(findCommonProblemsInDomain(domainData.issues))]

(* generatePredictiveCSS(elementData, pageContext) on the ledger.          *)
generatePredictiveCSS(feedbackData, elementData, pageContext) ==
    LET patterns == extractPatterns(feedbackData)
        key == elementKey(elementData.tag, elementData.classes)
        conf == Lookup(patterns.confidence, key)
        fixes == Lookup(patterns.successfulFixes, key)
        web == Lookup(patterns.websitePatterns, extractDomain(pageContext.url))
    IN  IF conf.has /\ RatLeq(learningThreshold, patterns.confidence[conf.at].value)
        THEN Answer("predict", elementData, "learned_pattern",
                    findMostSuccessfulCSS(patterns.successfulFixes[fixes.at].cssFixes).rules,
                    patterns.confidence[conf.at].value, NoSmartCSS)
        ELSE IF /\ web.has
                /\ RatLess(Rat(1, 2),
                           analyzeDomainPattern(patterns.websitePatterns[web.at]).confidence)
        THEN Answer("predict", elementData, "domain_pattern",
                    analyzeDomainPattern(patterns.websitePatterns[web.at]).recommendedCSS,
                    analyzeDomainPattern(patterns.websitePatterns[web.at]).confidence,
                    NoSmartCSS)
        ELSE Answer("predict", elementData, "null", <<>>, Rat(0, 1), NoSmartCSS)

(* content.js, case 'ANALYZE_PAGE_FOR_CHAT': the engine's fix is attached  *)
(* to the page analysis as predictedFix when it is not null and its        *)
(* confidence is > 0.7.                                                    *)
predictedFixAny(predictiveFix) == predictiveFix.source # "null"

predictedFix(predictiveFix) ==
    predictiveFix.source # "null" /\ RatLess(Rat(7, 10), predictiveFix.confidence)

RECURSIVE RatSum(_)
RatSum(values) ==
    IF values = <<>> THEN Rat(0, 1) ELSE RatAdd(Head(values), RatSum(Tail(values)))

calculateOverallConfidence(patterns) ==
    IF patterns.confidence = <<>> THEN Rat(0, 1)
    ELSE LET sum == RatSum([i \in 1..Len(patterns.confidence) |->
                               patterns.confidence[i].value])
         IN  Rat(sum.num, sum.den * Len(patterns.confidence))

(* generateLearningReport(): its learningConfidence, and its               *)
(* overallSuccessRate.                                                     *)
generateLearningReport(feedbackData, metrics) ==
    [learningConfidence |-> calculateOverallConfidence(extractPatterns(feedbackData)),
     overallSuccessRate |->
         IF metrics = <<>> THEN Rat(0, 1)
         ELSE Rat(Len(SelectSeq(metrics,
                         LAMBDA m : RatLeq(Rat(7, 10), m.effectivenessScore))),
                  Len(metrics))]

NoLearnEvent == [op |-> "none", el |-> 0, rating |-> ""]

(* ------------------- content.js: the classification paths -------------- *)
(* An element as the classification paths read it: its attributes and box  *)
(* (el) and its computed style (style).  A position: fixed element has no  *)
(* offsetParent; the box is 200 x 300 at z-index 500.                      *)
Snapshot(class, role, position, bg, fg) ==
    [el |-> [tag |-> "div", id |-> 0, classes |-> <<class>>, role |-> role,
             ariaModal |-> FALSE, position |-> position, zIndex |-> 500,
             backgroundColor |-> bg, color |-> fg, visibility |-> "visible",
             hasText |-> TRUE, offsetParent |-> (position # "fixed"),
             width |-> 200, height |-> 300],
     style |-> [position |-> position, zIndex |-> 500, visibility |-> "visible",
                backgroundColor |-> bg, color |-> fg, opacity |-> 100,
                borderColor |-> fg, borderStyle |-> "none"]]

Snapshots ==
    {Snapshot(class, role, position, bg, fg) :
        class \in {"menu", "dropdown-menu", "card"},
        role \in {"", "menu"},
        position \in {"absolute", "fixed", "static"},
        bg \in {Rgb(0, 0, 0, 0), Rgb(0, 0, 0, 1), Rgb(80, 80, 80, 1), Rgb(255, 255, 255, 1)},
        fg \in {Rgb(0, 0, 0, 1), Rgb(80, 80, 80, 1), Rgb(255, 255, 255, 1)}}

(* getLuminance and getColorLuminance on an rgb()/rgba() value, times      *)
(* 10000: the linearised channel c <= 0.03928 ? c / 12.92 :                *)
(* ((c + 0.055) / 1.055) ^ 2.4 is tabulated for the channel values of      *)
(* Snapshots (80 / 255 gives 0.0802).                                      *)
(* calculateContrast(a, b) < 3 and haspoorContrast: (brightest + 0.05) /   *)
(* (darkest + 0.05) < 3, cross-multiplied on that scale.                   *)
contrastBelow3(a, b) ==
    LET linear(v) == CASE v = 0 -> 0 [] v = 80 -> 802 [] v = 255 -> 10000
        getLuminance(c) ==
            (2126 * linear(c.r) + 7152 * linear(c.g) + 722 * linear(c.b)) \div 10000
        l1 == getLuminance(a)
        l2 == getLuminance(b)
        brightest == IF l1 > l2 THEN l1 ELSE l2
        darkest == IF l1 > l2 THEN l2 ELSE l1
    IN  brightest + 500 < 3 * (darkest + 500)

(* detectDarkModeIssues(element, computedStyle); parseColor reads r, g, b  *)
(* and the alpha of the rgb()/rgba() value, isLightColor and isDarkColor   *)
(* compare the brightness (299 r + 587 g + 114 b) / 1000 with 128.         *)
detectDarkModeIssues(style) ==
    LET bgColor == style.backgroundColor
        textColor == style.color
        borderColor == style.borderColor
        brightness(c) == 299 * c.r + 587 * c.g + 114 * c.b
        isLightColor(c) == c.a # 0 /\ brightness(c) > 128000
        isDarkColor(c) == c.a # 0 /\ brightness(c) < 128000
    IN  (IF isLightColor(bgColor) /\ isDarkColor(textColor)
         THEN <<"light_background_dark_text">> ELSE <<>>)
        \o (IF bgColor.a = 0 /\ isDarkColor(textColor)
            THEN <<"transparent_background_dark_text">> ELSE <<>>)
        \o (IF bgColor.r > 240 /\ bgColor.g > 240 /\ bgColor.b > 240
            THEN <<"very_light_background">> ELSE <<>>)
        \o (IF (textColor.r # 0 \/ textColor.g # 0 \/ textColor.b # 0)
               /\ contrastBelow3(bgColor, textColor)
            THEN <<"low_contrast">> ELSE <<>>)
        \o (IF style.opacity # 100 /\ style.opacity < 50
            THEN <<"low_opacity">> ELSE <<>>)
        \o (IF isLightColor(borderColor) /\ style.borderStyle # "none"
            THEN <<"light_border">> ELSE <<>>)

(* analyzePageForDarkMode: the issue names it pushes for one element.  The *)
(* element is visited once per entry of problematicSelectors it matches:   *)
(* a class "menu" matches .menu and [class*="menu"], "dropdown-menu"       *)
(* matches [class*="menu"] and [class*="dropdown"], "card" matches none.   *)
analyzePageForDarkMode(el, style) ==
    LET visits == IF el.classes[1] \in {"menu", "dropdown-menu"} THEN 2 ELSE 0
        once == (IF style.backgroundColor.a = 0
                 THEN <<"transparent_background">> ELSE <<>>)
                \o (IF contrastBelow3(style.backgroundColor, style.color)
                    THEN <<"poor_contrast">> ELSE <<>>)
    IN  IF visits = 0 THEN <<>> ELSE once \o once

(* ------------- the content scripts' runtime.onMessage listeners -------- *)
(* A runtime message sent to the tab: its type, the fields the listeners   *)
(* read (enabled; css, which is msg.css or msg.appliedCSS), whether the    *)
(* document refuses a style element (appendChild throws), whether the      *)
(* page's localStorage throws on access (storeFails), and whether the      *)
(* listeners have run on it and, then, the case of content.js that ran.    *)
Messages ==
    [type : {"TOGGLE_DARK_MODE", "START_ELEMENT_SELECTION", "SUBMIT_DARKMODE_FEEDBACK",
             "GET_PAGE_STATUS", "GET_AI_LEARNING_ANALYTICS", "TRIGGER_DARK_MODE_ANALYSIS",
             "ANALYZE_PAGE_FOR_CHAT", "GET_DARK_MODE_STATUS", "ANALYZE_DARK_MODE_ISSUES",
             "VERIFY_DARK_MODE_FIXES", "inject-darkmode-css", "RATE_AI_FIX",
             "GET_LEARNING_REPORT", "PING"},
     enabled : BOOLEAN, css : {"", "cssA"}, rejects : BOOLEAN, storeFails : BOOLEAN,
     delivered : {FALSE}, handler : {"none"}]

NoMessage ==
    [type |-> "none", enabled |-> FALSE, css |-> "", rejects |-> FALSE, storeFails |-> FALSE,
     delivered |-> TRUE, handler |-> "none"]

(* content.js, the listener's switch: the case that runs (handler), what   *)
(* it passes to sendResponse, and whether analyzePageForDarkMode runs.     *)
(* With a failing store setItem throws into the catch of                   *)
(* SUBMIT_DARKMODE_FEEDBACK, and generateLearningReport rejects into the   *)
(* catch of GET_LEARNING_REPORT.                                           *)
contentListener(m) ==
    LET cases == {"TOGGLE_DARK_MODE", "START_ELEMENT_SELECTION", "SUBMIT_DARKMODE_FEEDBACK",
                  "ANALYZE_PAGE_FOR_CHAT", "GET_DARK_MODE_STATUS", "ANALYZE_DARK_MODE_ISSUES",
                  "VERIFY_DARK_MODE_FIXES", "inject-darkmode-css", "RATE_AI_FIX",
                  "GET_LEARNING_REPORT"}
        handler == IF m.type \in cases THEN m.type ELSE "default"
        status == CASE handler = "default" -> "error"
                    [] handler = "inject-darkmode-css" /\ m.rejects -> "error"
                    [] handler = "RATE_AI_FIX" /\ m.css = "" -> "error"
                    [] handler \in {"SUBMIT_DARKMODE_FEEDBACK", "GET_LEARNING_REPORT"}
                         /\ m.storeFails -> "error"
                    [] OTHER -> "ok"
    IN  [handler |-> handler,
         responses |-> <<[from |-> "content.js", status |-> status,
                          reason |-> IF handler = "default" THEN "unknown message type"
                                     ELSE ""]>>,
         analysis |-> handler \in {"ANALYZE_PAGE_FOR_CHAT", "GET_DARK_MODE_STATUS",
                                   "ANALYZE_DARK_MODE_ISSUES", "VERIFY_DARK_MODE_FIXES"}]

(* add-dark-class.js, the chrome.runtime.onMessage listener: its if chain. *)
(* submitFeedback is not defined in the script, so the call throws before  *)
(* sendResponse; so does injectGeminiCssPatch when appendChild throws.     *)
addDarkClassListener(m) ==
    LET handler ==
            CASE m.type = "inject-darkmode-css" /\ m.css # "" -> m.type
              [] m.type \in {"TOGGLE_DARK_MODE", "START_ELEMENT_SELECTION",
                             "SUBMIT_DARKMODE_FEEDBACK", "ANALYZE_PAGE_FOR_CHAT",
                             "GET_DARK_MODE_STATUS"} -> m.type
              [] OTHER -> "not handled"
        status == CASE handler = "inject-darkmode-css" -> "css_injected"
                    [] handler = "TOGGLE_DARK_MODE" -> "success"
                    [] handler = "START_ELEMENT_SELECTION" -> "selection_started"
                    [] OTHER -> "analysis"
        throws == \/ handler = "SUBMIT_DARKMODE_FEEDBACK"
                  \/ handler = "inject-darkmode-css" /\ m.rejects
    IN  [handler |-> handler,
         responses |-> IF handler = "not handled" \/ throws THEN <<>>
                       ELSE <<[from |-> "add-dark-class.js", status |-> status,
                               reason |-> ""]>>,
         analysis |-> handler = "TOGGLE_DARK_MODE" /\ m.enabled]

(* No message under way, no element under classification.                  *)
InitContent ==
    /\ snapshot = Snapshot("card", "", "static", Rgb(0, 0, 0, 0), Rgb(0, 0, 0, 1))
    /\ emitted = [by |-> "none", tags |-> <<>>]
    /\ msg = NoMessage
    /\ responses = <<>>

InitLearn ==
    /\ feedback = <<>>
    /\ patternsStored = NoPatterns
    /\ successMetrics = <<>>
    /\ fixTracking = <<>>
    /\ learnEvent = NoLearnEvent
    /\ feedbackLog = <<>>
    /\ answer = NoAnswer

Init == InitPage /\ InitFix /\ InitLearn /\ InitContent

(* ------------------------- learning: the handlers ---------------------- *)
(* content.js, case 'SUBMIT_DARKMODE_FEEDBACK': a new entry, not fixed.    *)
SubmitFeedback(n, description) ==
    /\ Len(feedback) < MaxLedger
    /\ feedback' = Append(feedback, FeedbackEntry(0, Element(n).tag, Element(n).classes,
                                                  description, FALSE, "", ""))
    /\ learnEvent' = [op |-> "submit", el |-> n, rating |-> ""]
    /\ UNCHANGED <<patternsStored, successMetrics, fixTracking>>
    /\ UNCHANGED synthVars
    /\ UNCHANGED <<pageVars, fixVars, contentVars>>

(* The user answers "Was this fix correct?" on the prompt of element n.    *)
AccuracyAnswer(n, isFixed) ==
    /\ Len(saveAccuracyFeedback(feedback, n, isFixed)) <= MaxLedger
    /\ feedback' = saveAccuracyFeedback(feedback, n, isFixed)
    /\ learnEvent' = [op |-> "accuracy", el |-> n, rating |-> IF isFixed THEN "yes" ELSE "no"]
    /\ UNCHANGED <<patternsStored, successMetrics, fixTracking>>
    /\ UNCHANGED synthVars
    /\ UNCHANGED <<pageVars, fixVars, contentVars>>

(* content.js, case 'RATE_AI_FIX' (and 'inject-darkmode-css' with          *)
(* elementData, rating 'applied'): AILearningEngine.trackFixSuccess.       *)
trackFixSuccess(n, appliedCSS, userRating) ==
    /\ Len(successMetrics) < MaxMetrics
    /\ successMetrics' = Append(successMetrics,
                                [elementData |-> ElementData(n), appliedCSS |-> appliedCSS,
                                 userRating |-> userRating, domain |-> extractDomain(PageUrl),
                                 effectivenessScore |-> calculateEffectivenessScore(userRating)])
    /\ feedback' = updateFeedbackWithSuccess(feedback, ElementData(n), appliedCSS, userRating)
    /\ learnEvent' = [op |-> "track", el |-> n, rating |-> userRating]
    /\ UNCHANGED <<patternsStored, fixTracking>>
    /\ UNCHANGED synthVars
    /\ UNCHANGED <<pageVars, fixVars, contentVars>>

(* generatePredictiveCSS and generateLearningReport begin with             *)
(* analyzeFeedbackPatterns, which stores what it derives.                  *)
AnalyzePatterns ==
    /\ patternsStored' = analyzeFeedbackPatterns(feedback)
    /\ learnEvent' = [op |-> "analyze", el |-> 0, rating |-> ""]
    /\ UNCHANGED <<feedback, successMetrics, fixTracking>>
    /\ UNCHANGED synthVars
    /\ UNCHANGED <<pageVars, fixVars, contentVars>>

(* popup.js trackFixSuccess, from the buttons under an applied fix of an   *)
(* element performAutomaticElementAnalysis has submitted feedback for: a   *)
(* record in the popup's storage and TRACK_FIX_SUCCESS to background.js,   *)
(* whose listener has no branch for it.                                    *)
PopupRate(n, css, rating) ==
    /\ Len(fixTracking) < MaxMetrics
    /\ \E i \in 1..Len(feedback) :
          /\ feedback[i].outerHTML = 0
          /\ feedback[i].tag = Element(n).tag /\ feedback[i].classes = Element(n).classes
    /\ fixTracking' = Append(fixTracking,
                             [element |-> Element(n).tag, css |-> css, feedback |-> rating,
                              successScore |-> CASE rating = "positive" -> Rat(1, 1)
                                                 [] rating = "partial" -> Rat(1, 2)
                                                 [] OTHER -> Rat(0, 1)])
    /\ learnEvent' = [op |-> "popup_rate", el |-> n, rating |-> rating]
    /\ UNCHANGED <<feedback, patternsStored, successMetrics>>
    /\ UNCHANGED synthVars
    /\ UNCHANGED <<pageVars, fixVars, contentVars>>

(* ------------------------- synthesis: the handlers --------------------- *)
(* The elements the synthesis is asked about: of the endpoint, and of the  *)
(* engine ('page' is what content.js asks about).                          *)
ServerElements == {[tag |-> "nav", classes |-> <<"menu">>], [tag |-> "ul", classes |-> <<"menu">>]}

UlMenu == [tag |-> "UL", classes |-> <<"menu">>]

PredictElements == {UlMenu, [tag |-> "page", classes |-> <<>>]}

(* The ledger once the accuracy prompt was answered on k <ul class="menu"> *)
(* of different outerHTML, Yes on the first f of them.                     *)
RECURSIVE Answered(_, _)
Answered(k, f) ==
    IF k = 0 THEN <<>>
    ELSE saveAccuracyFeedback(Answered(k - 1, f), 3 * (k - 1) + 1, k <= f)

(* The record trackFixSuccess pushes to 'darkmode_success'.                *)
SuccessMetric(elementData, appliedCSS, userRating) ==
    [elementData |-> elementData, appliedCSS |-> appliedCSS, userRating |-> userRating,
     domain |-> extractDomain(PageUrl),
     effectivenessScore |-> calculateEffectivenessScore(userRating)]

(* The synthesis starts from a ledger of f + u answers, which RATE_AI_FIX  *)
(* for { tag: 'UL', classes: ['menu'] } with rating 'up' has followed when *)
(* css is a text.                                                          *)
InitSynth ==
    /\ InitPage /\ order = <<>> /\ ~darkModeEnabled
    /\ InitFix
    /\ \E f \in 0..MaxFixed, u \in 0..1, css \in {"", "cssA"} :
          /\ feedback = IF css = "" THEN Answered(f + u, f)
                        ELSE updateFeedbackWithSuccess(Answered(f + u, f), UlMenu, css, "up")
          /\ successMetrics = IF css = "" THEN <<>> ELSE <<SuccessMetric(UlMenu, css, "up")>>
    /\ patternsStored = NoPatterns
    /\ fixTracking = <<>>
    /\ learnEvent = NoLearnEvent
    /\ feedbackLog = <<>>
    /\ answer = NoAnswer
    /\ InitContent

(* POST /api/gemini from any client of the proxy, from the request to the  *)
(* 200 answer: the endpoint's darkModeCss is logged with the body.         *)
PostGemini(body, darkModeCss) ==
    /\ Len(feedbackLog) < MaxLog
    /\ feedbackLog' = Append(feedbackLog, LogEntry(body, darkModeCss))
    /\ answer' = NoAnswer
    /\ UNCHANGED <<feedback, patternsStored, successMetrics, fixTracking, learnEvent>>
    /\ UNCHANGED <<pageVars, fixVars, contentVars>>

(* POST /api/smart-css-generation.                                         *)
SmartCssGeneration(elementData, domain) ==
    /\ answer' = smartCssGeneration(elementData, [domain |-> domain], feedbackLog)
    /\ UNCHANGED <<feedback, patternsStored, successMetrics, fixTracking, learnEvent,
                   feedbackLog>>
    /\ UNCHANGED <<pageVars, fixVars, contentVars>>

(* aiLearning.generatePredictiveCSS(elementData, { url: location.href })   *)
(* as content.js calls it, and whether the handler attaches what it gave.  *)
GeneratePredictiveCSS(elementData) ==
    /\ patternsStored' = analyzeFeedbackPatterns(feedback)
    /\ answer' = LET predictiveFix ==
                        generatePredictiveCSS(feedback, elementData, [url |-> PageUrl])
                 IN  predictiveFix @@ [predictedFix |-> predictedFix(predictiveFix)]
    /\ learnEvent' = [op |-> "analyze", el |-> 0, rating |-> ""]
    /\ UNCHANGED <<feedback, successMetrics, fixTracking, feedbackLog>>
    /\ UNCHANGED <<pageVars, fixVars, contentVars>>

(* content.js, case 'GET_LEARNING_REPORT'.                                 *)
GetLearningReport ==
    /\ patternsStored' = analyzeFeedbackPatterns(feedback)
    /\ answer' = Answer("report", NoElementData, "report", <<>>,
                        generateLearningReport(feedback, successMetrics).learningConfidence,
                        NoSmartCSS)
    /\ learnEvent' = [op |-> "analyze", el |-> 0, rating |-> ""]
    /\ UNCHANGED <<feedback, successMetrics, fixTracking, feedbackLog>>
    /\ UNCHANGED <<pageVars, fixVars, contentVars>>

(* ---------------------- classification: the paths ---------------------- *)
(* analyzeDarkModeIssues reads the element of the snapshot.                *)
AnalyzeElement ==
    /\ emitted' = [by |-> "analyzeDarkModeIssues",
                   tags |-> problemsOf(snapshot.el, snapshot.style)]
    /\ UNCHANGED <<snapshot, msg, responses, theme, calls>>
    /\ UNCHANGED <<feedback, patternsStored, successMetrics, fixTracking, learnEvent, synthVars>>
    /\ UNCHANGED <<pageVars, fixVars>>

(* content.js, the click on a selected element: detectDarkModeIssues.      *)
DetectElement ==
    /\ emitted' = [by |-> "detectDarkModeIssues", tags |-> detectDarkModeIssues(snapshot.style)]
    /\ UNCHANGED <<snapshot, msg, responses, theme, calls>>
    /\ UNCHANGED <<feedback, patternsStored, successMetrics, fixTracking, learnEvent, synthVars>>
    /\ UNCHANGED <<pageVars, fixVars>>

(* content.js, analyzePageForDarkMode reaches the element of the snapshot. *)
AnalyzePage ==
    /\ emitted' = [by |-> "analyzePageForDarkMode",
                   tags |-> analyzePageForDarkMode(snapshot.el, snapshot.style)]
    /\ UNCHANGED <<snapshot, msg, responses, theme, calls>>
    /\ UNCHANGED <<feedback, patternsStored, successMetrics, fixTracking, learnEvent, synthVars>>
    /\ UNCHANGED <<pageVars, fixVars>>

(* ------------------------ the message dispatch ------------------------- *)
(* tabs.sendMessage reaches both listeners of the tab, in the order of     *)
(* their registration; each runs its handler to the end.  The handlers:    *)
(* TOGGLE_DARK_MODE as ToggleOn and ToggleOff, 'inject-darkmode-css' as    *)
(* InjectCss (add-dark-class.js removes its style tag before appendChild   *)
(* throws), SUBMIT_DARKMODE_FEEDBACK as SubmitFeedback, RATE_AI_FIX as     *)
(* trackFixSuccess for { tag: 'UL', classes: ['menu'] } rated 'up',        *)
(* ANALYZE_PAGE_FOR_CHAT and GET_LEARNING_REPORT as GeneratePredictiveCSS  *)
(* and GetLearningReport, the analyses on the element of the snapshot.     *)
(* With a failing store nothing is written; analyzeFeedbackPatterns        *)
(* catches and returns {}, on which generatePredictiveCSS                  *)
(* (patterns.confidence[elementKey]) and generateLearningReport            *)
(* (Object.values(patterns.commonProblems)) throw a TypeError.             *)
Deliver(contentFirst) ==
    LET content == contentListener(msg)
        addDark == addDarkClassListener(msg)
        toggle == msg.type = "TOGGLE_DARK_MODE"
        inject == msg.type = "inject-darkmode-css"
        rate == msg.type = "RATE_AI_FIX" /\ msg.css # "" /\ ~msg.storeFails
        page == [tag |-> "page", classes |-> <<>>]
    IN  /\ ~msg.delivered
        /\ msg' = [msg EXCEPT !.delivered = TRUE, !.handler = content.handler]
        /\ responses' = IF contentFirst /\ msg.type # "ANALYZE_PAGE_FOR_CHAT"
                         THEN content.responses \o addDark.responses
                         ELSE addDark.responses \o content.responses
        /\ emitted' = IF content.analysis
                       THEN [by |-> "analyzePageForDarkMode",
                             tags |-> analyzePageForDarkMode(snapshot.el, snapshot.style)]
                       ELSE IF addDark.analysis
                       THEN [by |-> "analyzeDarkModeIssues",
                             tags |-> problemsOf(snapshot.el, snapshot.style)]
                       ELSE emitted
        /\ htmlClass' = IF toggle THEN msg.enabled ELSE htmlClass
        /\ realTimeDarkModeInterval' = IF toggle THEN msg.enabled ELSE realTimeDarkModeInterval
        /\ liveIntervals' =
               IF ~toggle THEN liveIntervals
               ELSE IF msg.enabled
               THEN initializeRealTimeDarkMode(realTimeDarkModeInterval, liveIntervals)
               ELSE stopRealTimeDarkMode(realTimeDarkModeInterval, liveIntervals)
        /\ CASE toggle /\ msg.enabled -> analyzeDarkModeIssues({})
             [] toggle /\ ~msg.enabled ->
                  /\ geminiStyle' = removeGeminiCssPatch(geminiStyle)
                  /\ lastKnownIssues' = <<>>
                  /\ cycle' = [cycle EXCEPT !.stopped = TRUE]
             [] inject /\ msg.css # "" ->
                  /\ geminiStyle' = IF msg.rejects THEN NoStyle
                                    ELSE injectGeminiCssPatch(geminiStyle, StyleOf(msg.css, 1))
                  /\ UNCHANGED <<lastKnownIssues, cycle>>
             [] OTHER -> UNCHANGED <<geminiStyle, lastKnownIssues, cycle>>
        /\ patchStyles' = IF inject /\ ~msg.rejects
                          THEN Append(patchStyles, [css |-> StyleOf(msg.css, 1),
                                                    source |-> "gemini", elementInfo |-> 1])
                          ELSE patchStyles
        /\ lastEvent' = CASE toggle /\ msg.enabled -> "cycle"
                           [] toggle /\ ~msg.enabled -> "toggle_off"
                           [] inject -> "inject"
                           [] OTHER -> "other"
        /\ feedback' = CASE msg.type = "SUBMIT_DARKMODE_FEEDBACK" /\ ~msg.storeFails ->
                               Append(feedback, FeedbackEntry(0, "ul", <<"menu">>, "", FALSE, "", ""))
                          [] rate -> updateFeedbackWithSuccess(feedback, UlMenu, msg.css, "up")
                          [] OTHER -> feedback
        /\ successMetrics' = IF rate
                             THEN Append(successMetrics, SuccessMetric(UlMenu, msg.css, "up"))
                             ELSE successMetrics
        /\ patternsStored' = IF /\ msg.type \in {"ANALYZE_PAGE_FOR_CHAT", "GET_LEARNING_REPORT"}
                                /\ ~msg.storeFails
                             THEN analyzeFeedbackPatterns(feedback)
                             ELSE patternsStored
        /\ answer' = CASE msg.type = "ANALYZE_PAGE_FOR_CHAT" /\ msg.storeFails ->
                             Answer("predict", page, "TypeError", <<>>, Rat(0, 1), NoSmartCSS)
                        [] msg.type = "ANALYZE_PAGE_FOR_CHAT" ->
                             LET predictiveFix ==
                                     generatePredictiveCSS(feedback, page, [url |-> PageUrl])
                             IN  predictiveFix @@ [predictedFix |-> predictedFix(predictiveFix)]
                        [] msg.type = "GET_LEARNING_REPORT" /\ msg.storeFails ->
                             Answer("report", NoElementData, "TypeError", <<>>, Rat(0, 1),
                                    NoSmartCSS)
                        [] msg.type = "GET_LEARNING_REPORT" ->
                             Answer("report", NoElementData, "report", <<>>,
                                    generateLearningReport(feedback, successMetrics).learningConfidence,
                                    NoSmartCSS)
                        [] OTHER -> answer
        /\ UNCHANGED <<order, fixed, prompt, classifyElement, scriptLoading, timerQueue,
                       debounceTimer, darkModeEnabled, toggleMsg, sinceNotif, owed, burstLen>>
        /\ UNCHANGED <<fixTracking, learnEvent, feedbackLog, snapshot, theme, calls>>
        /\ UNCHANGED fixVars

(* ai-dashboard.js, window.exportLearningData: EXPORT_LEARNING_DATA goes   *)
(* to background.js, whose listeners have no branch for it and return      *)
(* false; the callback gets no response.data and writes no document.       *)
ExportLearningData ==
    /\ stage = "idle" /\ request = NoRequest
    /\ request' = [type |-> "EXPORT_LEARNING_DATA", node |-> 0]
    /\ reply' = NoReply
    /\ lastEvent' = "other"
    /\ UNCHANGED <<popup, stage, fetches, proxyResponse, triggers, fix>>
    /\ UNCHANGED quietPage
    /\ UNCHANGED learnVars

(* popup.js, performAutomaticElementAnalysis after its 'inject-darkmode-css' *)
(* came back: cssApplied is false only with runtime.lastError, that is     *)
(* without any response, and is not read again; the modal "Auto-Fix        *)
(* Applied!" with the rating buttons follows.                              *)
PopupInjectReturned ==
    /\ msg.delivered /\ msg.type = "inject-darkmode-css" /\ msg.css # ""
    /\ popup = "idle"
    /\ popup' = "fix_applied"
    /\ lastEvent' = "other"
    /\ UNCHANGED <<request, stage, fetches, proxyResponse, reply, triggers, fix>>
    /\ UNCHANGED quietPage
    /\ UNCHANGED learnVars

(* popup.js, the toggle's change handler while another tab is the active  *)
(* one: the setting is stored, TOGGLE_DARK_MODE goes to that other tab.    *)
PopupToggleOtherTab ==
    /\ toggleMsg = "none"
    /\ darkModeEnabled' = ~darkModeEnabled
    /\ lastEvent' = "other"
    /\ UNCHANGED <<order, fixed, prompt, htmlClass, geminiStyle, patchStyles,
                   classifyElement, scriptLoading, timerQueue, debounceTimer,
                   realTimeDarkModeInterval, liveIntervals, lastKnownIssues, toggleMsg,
                   sinceNotif, owed, burstLen, cycle>>
    /\ UNCHANGED fixVars
    /\ UNCHANGED learnVars

(* background.js, toggleTheme once executeScript has answered hasClass:    *)
(* whether dark-theme.css is inserted in the tab afterwards.               *)
toggleTheme(inserted, isEnabled, hasClass) ==
    IF isEnabled /\ hasClass THEN TRUE
    ELSE IF ~isEnabled /\ hasClass THEN FALSE
    ELSE inserted

(* storage.onChanged for darkModeEnabled: applyThemeToAllTabs reads the    *)
(* setting and queries the tabs.  tabs.onUpdated does the same for the tab *)
(* that finished loading while the setting is on.                          *)
ApplyThemeToAllTabs ==
    /\ theme.stage = "idle" /\ theme.seen # darkModeEnabled
    /\ theme' = [theme EXCEPT !.stage = "query", !.isEnabled = darkModeEnabled,
                               !.seen = darkModeEnabled]
    /\ lastEvent' = "other"
    /\ UNCHANGED <<quietPage, fixVars>>
    /\ UNCHANGED <<feedback, patternsStored, successMetrics, fixTracking, learnEvent,
                   synthVars, snapshot, emitted, msg, responses, calls>>

(* toggleTheme for this tab: executeScript reads the class of <html>.      *)
ToggleThemeProbe ==
    /\ theme.stage = "query"
    /\ theme' = [theme EXCEPT !.stage = "probed", !.hasClass = htmlClass]
    /\ lastEvent' = "other"
    /\ UNCHANGED <<quietPage, fixVars>>
    /\ UNCHANGED <<feedback, patternsStored, successMetrics, fixTracking, learnEvent,
                   synthVars, snapshot, emitted, msg, responses, calls>>

(* The callback of executeScript: insertCSS, removeCSS or neither.         *)
ToggleThemeApply ==
    /\ theme.stage = "probed"
    /\ theme' = [theme EXCEPT !.stage = "idle",
                               !.inserted = toggleTheme(theme.inserted, theme.isEnabled,
                                                        theme.hasClass)]
    /\ lastEvent' = "other"
    /\ UNCHANGED <<quietPage, fixVars>>
    /\ UNCHANGED <<feedback, patternsStored, successMetrics, fixTracking, learnEvent,
                   synthVars, snapshot, emitted, msg, responses, calls>>

(* POST /api/gemini of client c arrives: 500 at once without an API key,   *)
(* else the handler awaits its fetch to the generative endpoint.           *)
ApiGeminiReceive(c, hasKey) ==
    /\ calls[c].stage = "none"
    /\ calls' = [calls EXCEPT ![c] = IF hasKey THEN [stage |-> "gemini", status |-> 0]
                                      ELSE [stage |-> "done", status |-> 500]]
    /\ UNCHANGED <<pageVars, fixVars>>
    /\ UNCHANGED <<feedback, patternsStored, successMetrics, fixTracking, learnEvent,
                   synthVars, snapshot, emitted, msg, responses, theme>>

(* The handler logs the entry of an endpoint answer that is ok, and only   *)
(* of such an answer.                                                      *)
logsAnyAnswer(g) == TRUE

logs(g) == g.reached /\ g.ok

(* The endpoint answers the fetch of client c's call and the handler       *)
(* resumes: on a 2xx it reads the log file, pushes its entry and writes    *)
(* the file back, all with synchronous calls, then answers 200; anything   *)
(* else is caught and answered with 500.                                   *)
ApiGeminiAnswer(c, g) ==
    /\ calls[c].stage = "gemini"
    /\ calls' = [calls EXCEPT ![c] = [stage |-> "done",
                                       status |-> IF g.reached /\ g.ok THEN 200 ELSE 500]]
    /\ feedbackLog' = IF logs(g)
                      THEN Append(feedbackLog, LogEntry(ClientBody(c), g.data.darkModeCss))
                      ELSE feedbackLog
    /\ UNCHANGED <<pageVars, fixVars>>
    /\ UNCHANGED <<feedback, patternsStored, successMetrics, fixTracking, learnEvent,
                   answer, snapshot, emitted, msg, responses, theme>>

(* The proxy with the calls of several clients in flight.                  *)
NextServer ==
    \/ \E c \in Clients, hasKey \in BOOLEAN : ApiGeminiReceive(c, hasKey)
    \/ \E c \in Clients, g \in GeminiResponses : ApiGeminiAnswer(c, g)

SpecServer == Init /\ [][NextServer]_vars

(* The toggle across the popup, the content scripts and the background     *)
(* script.                                                                 *)
NextToggle ==
    \/ PopupToggle
    \/ PopupToggleOtherTab
    \/ \E bad \in SUBSET Range(order) : ToggleOn(bad)
    \/ ToggleOff
    \/ ApplyThemeToAllTabs
    \/ ToggleThemeProbe
    \/ ToggleThemeApply

SpecToggle == Init /\ [][NextToggle]_vars

(* The page under analysis: its mutations, the first fix pass, the toggle  *)
(* and the analysis interval.                                              *)
Next ==
    \/ \E n \in Nodes, front \in BOOLEAN : InsertNode(n, front)
    \/ \E n \in Nodes : RemoveNode(n)
    \/ \E defined \in BOOLEAN :
          \E verdict \in (IF defined THEN classifyElementVerdicts(Unfixed(order)) ELSE {{}}) :
             ModelScriptLoaded(defined, verdict)
    \/ PopupToggle
    \/ \E bad \in SUBSET Range(order) : ToggleOn(bad)
    \/ ToggleOff
    \/ \E bad \in SUBSET Range(order) : IntervalTick(bad)

Spec == Init /\ [][Next]_vars

(* The change monitor: mutations, the debounced rescans and the prompts    *)
(* they add and remove, in time.                                           *)
NextMonitor ==
    \/ \E n \in Nodes, front \in BOOLEAN : InsertNode(n, front)
    \/ \E n \in Nodes : RemoveNode(n)
    \/ \E defined \in BOOLEAN :
          \E verdict \in (IF defined THEN classifyElementVerdicts(Unfixed(order)) ELSE {{}}) :
             ModelScriptLoaded(defined, verdict)
    \/ \E verdict \in (IF classifyElement THEN classifyElementVerdicts(Unfixed(order)) ELSE {{}}) :
          DebounceFire(verdict)
    \/ \E n \in Nodes : PromptRemoved(n)
    \/ Advance

SpecMonitor == Init /\ [][NextMonitor]_vars

(* The change monitor under the browser's scheduling: time does not stop,  *)
(* and a timeout that is due runs.  The page's own mutations and the       *)
(* arrival of ai-model.js are under no obligation.                         *)
SpecMonitorFair ==
    /\ Init /\ [][NextMonitor]_vars
    /\ WF_vars(Advance)
    /\ WF_vars(\E verdict \in SUBSET Nodes : DebounceFire(verdict))

(* The patch applier: patches sent by the popup, the toggle, the interval. *)
NextApply ==
    \/ \E css \in InjectableCss : \E n \in Nodes :
          css.targets = <<generateCssSelector(n)>> /\ InjectCss(css, n)
    \/ PopupToggle
    \/ \E bad \in SUBSET Range(order) : ToggleOn(bad)
    \/ ToggleOff
    \/ \E bad \in SUBSET Range(order) : IntervalTick(bad)

SpecApply == Init /\ [][NextApply]_vars

(* The fix path: a trigger, the request's way to the endpoint and back.    *)
NextFix ==
    \/ \E type \in TriggerTypes, n \in Nodes : PopupTrigger(type, n)
    \/ \E reachable \in BOOLEAN : BackgroundFetch(reachable)
    \/ \E hasKey \in BOOLEAN : ServerReceive(hasKey)
    \/ \E g \in GeminiResponses : GeminiRespond(g)
    \/ BackgroundRespond
    \/ PopupTimeout
    \/ PopupReceive

SpecFix == Init /\ [][NextFix]_vars

(* The learning engine: feedback, ratings and the patterns derived.       *)
NextLearn ==
    \/ \E n \in SelectedElements : SubmitFeedback(n, "transparent")
    \/ \E n \in FeedbackElements, isFixed \in BOOLEAN : AccuracyAnswer(n, isFixed)
    \/ \E n \in SelectedElements, rating \in {"up", "down"} :
          trackFixSuccess(n, "cssA", rating)
    \/ AnalyzePatterns
    \/ \E n \in SelectedElements, rating \in {"positive", "negative"} :
          PopupRate(n, "cssA", rating)

(* The learning engine of a page that is empty and idle.                   *)
InitIdle == Init /\ order = <<>> /\ ~darkModeEnabled

SpecLearn == InitIdle /\ [][NextLearn]_vars

(* Synthesis: the proxy's log and its smart-CSS endpoint, the engine's     *)
(* prediction and report on a ledger.                                      *)
NextSynth ==
    \/ \E darkModeCss \in {""} \cup CssTexts : PostGemini(NavBody, darkModeCss)
    \/ \E elementData \in ServerElements, domain \in {"", "site.example"} :
          SmartCssGeneration(elementData, domain)
    \/ \E elementData \in PredictElements : GeneratePredictiveCSS(elementData)
    \/ GetLearningReport

SpecSynth == InitSynth /\ [][NextSynth]_vars

(* The classification paths on one element.                                *)
InitClassify ==
    /\ InitPage /\ order = <<>> /\ ~darkModeEnabled
    /\ InitFix
    /\ InitLearn
    /\ snapshot \in Snapshots
    /\ emitted = [by |-> "none", tags |-> <<>>]
    /\ msg = NoMessage
    /\ responses = <<>>

NextClassify ==
    \/ AnalyzeElement
    \/ DetectElement
    \/ AnalyzePage

SpecClassify == InitClassify /\ [][NextClassify]_vars

(* One runtime message to the tab and the popup's reaction to the answer.  *)
InitDispatch ==
    /\ InitPage /\ order = <<>>
    /\ InitFix
    /\ InitLearn
    /\ snapshot = Snapshot("card", "", "static", Rgb(0, 0, 0, 0), Rgb(0, 0, 0, 1))
    /\ emitted = [by |-> "none", tags |-> <<>>]
    /\ msg \in Messages
    /\ responses = <<>>

NextDispatch ==
    \/ \E contentFirst \in BOOLEAN : Deliver(contentFirst)
    \/ PopupInjectReturned
    \/ ExportLearningData

SpecDispatch == InitDispatch /\ [][NextDispatch]_vars

(* ------------------------------ claims --------------------------------- *)
(* C1: applying the same patch to the same node twice (the same            *)
(* inject-darkmode-css request handled twice) leaves exactly one style     *)
(* block: no two style blocks of the head come from equal requests.        *)
C1_SamePatchOneBlock ==
    \A i, j \in 1..Len(patchStyles) : patchStyles[i] = patchStyles[j] => i = j

(* C2: after any sequence of patch applications a node is bound to at most *)
(* one active patch: at most one applied style block is written for it.    *)
C2_OnePatchPerNode ==
    \A n \in Nodes :
        Cardinality({i \in 1..Len(patchStyles) : patchStyles[i].elementInfo = n}) <= 1

(* C3: right after a disable (TOGGLE_DARK_MODE, enabled = false) no style  *)
(* block remains, the html marker is absent and no node carries            *)
(* data-darkmode-fixed.                                                    *)
C3_DisableRemovesAll ==
    lastEvent = "toggle_off" =>
        /\ geminiStyle = NoStyle
        /\ patchStyles = <<>>
        /\ ~htmlClass
        /\ \A n \in Nodes : ~fixed[n]

(* C4: a patch that is active for a node stays active in every later state *)
(* unless the mode is toggled off (a newer patch for the same node leaves  *)
(* the node patched): no other step, a scan cycle included, removes it.    *)
C4_PatchPersists ==
    [][\A n \in Nodes : (Patched(n) /\ ~Patched(n)') => lastEvent' = "toggle_off"]_vars

(* C5: a burst of mutation notifications, each within DebounceDelay of the *)
(* one before, triggers exactly one rescan, and it runs after the last     *)
(* notification: while the window of the last notification is open the     *)
(* burst's rescan has not run, once it has passed exactly one has.         *)
C5_OneRescanPerBurst ==
    /\ owed \in {0, 1}
    /\ (sinceNotif # NoNotif /\ sinceNotif < DebounceDelay) => owed = 1
    /\ (sinceNotif = NoNotif \/ sinceNotif > DebounceDelay) => owed = 0

(* C5 witness: a burst of several notifications has had its one rescan.    *)
C5_Witness == lastEvent = "rescan" /\ burstLen = 2 /\ owed = 0 /\ sinceNotif >= DebounceDelay

C7_EnabledMeansTicking ==
    (darkModeEnabled /\ htmlClass /\ toggleMsg = "none") => realTimeDarkModeInterval

(* C8: when the generative call returns an error, times out or brings a    *)
(* payload without a patch, no style block is inserted for the trigger.    *)
C8_NoPatchOnFailure == fix.noPatch => ~fix.injected

(* C9: a trigger causes at most one request to the proxy and at most one   *)
(* to the generative endpoint, and nothing but requests: after a failure   *)
(* or a timeout no further request and no cancellation goes out.           *)
C9_OneRequestPerTrigger ==
    /\ RequestsTo("proxy") <= 1
    /\ RequestsTo("gemini") <= 1
    /\ \A i \in 1..Len(fetches) : fetches[i].signal = "request"

(* C9 witness: a trigger that failed or timed out is over, with its one    *)
(* request to the endpoint sent.                                           *)
C9_Witness ==
    /\ triggers > 0 /\ stage = "idle" /\ fix.noPatch
    /\ RequestsTo("proxy") = 1 /\ RequestsTo("gemini") = 1

(* The keys feedback on element n is recorded under.                       *)
KeysOf(n) == {elementKey(Element(n).tag, Element(n).classes),
              elementKey(tagName(n), Element(n).classes)}

AllKeys == UNION {KeysOf(n) : n \in FeedbackElements}

(* C11: the feedback ledger is append-only: no step modifies, replaces or  *)
(* removes an entry that is already stored.                                *)
C11_LedgerAppendOnly ==
    [][\A i \in 1..Len(feedback) : Len(feedback') >= i /\ feedback'[i] = feedback[i]]_vars

(* C12: a user rating of an applied fix (the popup's looks good / still    *)
(* issues / partially fixed) reaches the ledger confidence is computed     *)
(* from: after it the ledger holds an entry of the element with the rating.*)
C12_RatingReachesLedger ==
    learnEvent.op = "popup_rate" =>
        \E i \in 1..Len(feedback) :
            /\ elementKey(feedback[i].tag, feedback[i].classes) \in KeysOf(learnEvent.el)
            /\ feedback[i].userRating # ""
            /\ feedback[i].fixed = (learnEvent.rating = "positive")

(* C13: when trackFixSuccess returns with the rating recorded in the       *)
(* ledger, the stored pattern record is the one derived from the ledger as *)
(* it is then.                                                             *)
C13_PatternsFreshAfterTrack ==
    (/\ learnEvent.op = "track"
     /\ \E i \in 1..Len(feedback) :
           /\ elementKey(feedback[i].tag, feedback[i].classes) \in KeysOf(learnEvent.el)
           /\ feedback[i].userRating = learnEvent.rating)
    => patternsStored.present /\ patternsStored.value = extractPatterns(feedback)

InUnit(r) == RatLeq(Rat(0, 1), r) /\ RatLeq(r, Rat(1, 1))

(* C14: every confidence stored or returned lies in [0,1]: the stored and  *)
(* the derived per-signature confidences, the domain confidences, the      *)
(* confidence generateSmartCSS returns and the endpoint passes on, the     *)
(* confidence of a prediction, the report's overall confidence and success *)
(* rate, the effectiveness scores and ratios.                              *)
C14_ConfidencesInUnit ==
    /\ InUnit(answer.confidence)
    /\ InUnit(answer.smartCSS.confidence)
    /\ \A i \in 1..Len(patternsStored.value.confidence) :
          InUnit(patternsStored.value.confidence[i].value)
    /\ \A i \in 1..Len(extractPatterns(feedback).confidence) :
          InUnit(extractPatterns(feedback).confidence[i].value)
    /\ \A i \in 1..Len(extractPatterns(feedback).websitePatterns) :
          InUnit(analyzeDomainPattern(extractPatterns(feedback).websitePatterns[i]).confidence)
    /\ InUnit(generateLearningReport(feedback, successMetrics).learningConfidence)
    /\ InUnit(generateLearningReport(feedback, successMetrics).overallSuccessRate)
    /\ \A i \in 1..Len(successMetrics) : InUnit(successMetrics[i].effectivenessScore)
    /\ \A i \in 1..Len(analyzeHistoricalPatterns(feedbackLog).elementTypeEffectiveness) :
          InUnit(analyzeHistoricalPatterns(feedbackLog).elementTypeEffectiveness[i]
                     .effectivenessRatio)

(* C14 witness: the endpoint answered with confidence 1 where the three    *)
(* contributions add up to more, and a stored signature built from more    *)
(* than ten fixed entries has confidence 1.                                *)
C14_Witness ==
    /\ answer.op = "smart"
    /\ answer.source = "pattern_based"
    /\ RatLess(Rat(1, 1), answer.smartCSS.sum)
    /\ RatEq(answer.confidence, Rat(1, 1))
    /\ \E i \in 1..Len(patternsStored.value.confidence) :
          /\ patternsStored.value.successfulFixes[i].count > MaxConfidenceFixes
          /\ RatEq(patternsStored.value.confidence[i].value, Rat(1, 1))

C16_NegativeByCountFormula ==
    [][\A k \in AllKeys :
          LET mine == SelectSeq(feedback,
                         LAMBDA f : elementKey(f.tag, f.classes) = k)
          IN  (/\ learnEvent'.rating \in {"down", "no"}
               /\ k \in KeysOf(learnEvent'.el)
               /\ feedback' # feedback
               /\ Len(mine) >= 1
               /\ \A i \in 1..Len(mine) : mine[i].fixed)
              => RatEq(confidenceOf(feedback', k), Rat(Len(mine), Len(mine) + 1))]_vars

(* The engine's record of the asked element's signature: whether there is  *)
(* one, its confidence, the observations it was built from, its texts.     *)
RecordOf(elementData) ==
    LET patterns == extractPatterns(feedback)
        at == Lookup(patterns.confidence, elementKey(elementData.tag, elementData.classes))
    IN  IF at.has
        THEN [has |-> TRUE, confidence |-> patterns.confidence[at.at].value,
              observations |-> patterns.successfulFixes[at.at].count,
              cssFixes |-> patterns.successfulFixes[at.at].cssFixes]
        ELSE [has |-> FALSE, confidence |-> Rat(0, 1), observations |-> 0, cssFixes |-> <<>>]

(* The engine's record of the page's domain: its issues and confidence.    *)
DomainRecord ==
    LET patterns == extractPatterns(feedback)
        at == Lookup(patterns.websitePatterns, extractDomain(PageUrl))
    IN  IF at.has
        THEN [issues |-> Len(patterns.websitePatterns[at.at].issues),
              confidence |-> analyzeDomainPattern(patterns.websitePatterns[at.at]).confidence]
        ELSE [issues |-> 0, confidence |-> Rat(0, 1)]

(* The texts that occur most often in a list, by literal equality.         *)
MostFrequent(texts) ==
    LET times(t) == Cardinality({i \in 1..Len(texts) : texts[i] = t})
    IN  {t \in Range(texts) : \A u \in Range(texts) : times(u) <= times(t)}

(* C17: the engine answers with a learned patch exactly when it holds, for *)
(* the asked signature, a record of confidence >= 0.6 built from at least  *)
(* 3 observations.                                                         *)
C17_LearnedIffQualified ==
    answer.op = "predict" =>
        (answer.source = "learned_pattern"
            <=> /\ RecordOf(answer.elementData).has
                /\ RatLeq(Rat(6, 10), RecordOf(answer.elementData).confidence)
                /\ RecordOf(answer.elementData).observations >= 3)

(* C18: when the record of the page's domain (at least 2 issues, trusted   *)
(* by analyzeDomainPattern) and the global record of the signature both    *)
(* qualify, the answer comes from the domain record.                       *)
C18_DomainBeforeGlobal ==
    (/\ answer.op = "predict"
     /\ DomainRecord.issues >= 2
     /\ RatLess(Rat(1, 2), DomainRecord.confidence)
     /\ RecordOf(answer.elementData).has
     /\ RatLeq(learningThreshold, RecordOf(answer.elementData).confidence)
     /\ RecordOf(answer.elementData).observations >= 3)
    => answer.source = "domain_pattern"

(* C19: for a <nav>, which has a template, when no learned fix qualifies   *)
(* generateSmartCSS gives the template exactly when the confidence it has  *)
(* summed is >= 0.3.                                                       *)
C19_TemplateFromThreeTenths ==
    (/\ answer.op = "smart"
     /\ answer.elementData.tag = "nav"
     /\ ~answer.smartCSS.learned)
    => (answer.smartCSS.rules # <<>> <=> RatLeq(Rat(3, 10), answer.smartCSS.sum))

(* C20: the text selected for a signature is one that occurs most often    *)
(* among the texts recorded for it: the endpoint's learned rule among the  *)
(* fixes of the class key, the engine's learned css among the signature's  *)
(* cssFixes.                                                               *)
C20_MajorityText ==
    /\ (answer.op = "smart" /\ answer.smartCSS.learned)
       => \E i \in 1..Len(analyzeHistoricalPatterns(feedbackLog).commonSelectors) :
             LET sel == analyzeHistoricalPatterns(feedbackLog).commonSelectors[i]
             IN  /\ sel.key = answer.elementData.classes
                 /\ answer.smartCSS.rules \in {<<t>> : t \in MostFrequent(sel.fixes)}
    /\ (/\ answer.op = "predict"
        /\ answer.source = "learned_pattern"
        /\ RecordOf(answer.elementData).cssFixes # <<>>)
       => answer.css \in {<<t>> : t \in MostFrequent(RecordOf(answer.elementData).cssFixes)}

(* C21: every element with a fully transparent background, position fixed *)
(* or absolute, stacking order above 100, a box between 40px and 90% of    *)
(* the viewport on both axes and a role or class that suggests a menu, a   *)
(* navigation or a dialog (class dropdown-menu is one) gets the tag        *)
(* transparent_menu_background from analyzeDarkModeIssues.                 *)
C21_TransparentMenuTagged ==
    LET el == snapshot.el
        qualifies ==
            /\ el.backgroundColor.a = 0
            /\ el.position \in {"fixed", "absolute"}
            /\ el.zIndex > 100
            /\ el.width > 40 /\ 10 * el.width < 9 * Viewport.w
            /\ el.height > 40 /\ 10 * el.height < 9 * Viewport.h
            /\ \/ el.role \in {"menu", "navigation", "dialog"}
               \/ el.classes[1] \in {"menu", "dropdown-menu"}
    IN  emitted.by = "analyzeDarkModeIssues" /\ qualifies
            => "transparent_menu_background" \in Range(emitted.tags)

(* C22: an element whose opaque background and text colour have a          *)
(* relative-luminance contrast ratio below 3:1 (two equal colours have     *)
(* ratio 1) gets the tag poor_contrast from analyzeDarkModeIssues and from *)
(* detectDarkModeIssues.                                                   *)
C22_LowRatioTagged ==
    /\ emitted.by \in {"analyzeDarkModeIssues", "detectDarkModeIssues"}
    /\ snapshot.style.backgroundColor.a = 1
    /\ contrastBelow3(snapshot.style.backgroundColor, snapshot.style.color)
    => "poor_contrast" \in Range(emitted.tags)

(* C23: every tag a classification path emits is one of the taxonomy       *)
(* transparent_menu_background, poor_contrast, white_background,           *)
(* hidden_content, low_opacity, light_border.                              *)
C23_TagsInTaxonomy ==
    Range(emitted.tags) \subseteq
        {"transparent_menu_background", "poor_contrast", "white_background",
         "hidden_content", "low_opacity", "light_border"}

(* C24: a scan pass (a rescan by fixTransparentMenus, an analysis cycle)   *)
(* is a pure read: it changes no element's style or attributes, inserts or *)
(* removes no element or style block and writes nothing to the ledger.     *)
C24_ScanIsPureRead ==
    [][lastEvent' \in {"rescan", "cycle"}
          => /\ fixed' = fixed /\ prompt' = prompt /\ order' = order
             /\ geminiStyle' = geminiStyle /\ patchStyles' = patchStyles
             /\ feedback' = feedback]_vars

(* C25: a scan skips the elements that carry data-darkmode-fixed: an       *)
(* analysis cycle reports no issue for a marked element.                   *)
C25_MarkedNodesSkipped ==
    lastEvent = "cycle" /\ cycle.completed
        => \A i \in 1..Len(cycle.issues) :
              ~(cycle.issues[i].xpath.byId /\ fixed[cycle.issues[i].xpath.id])

(* C26: when the document rejects the style block of an                   *)
(* 'inject-darkmode-css' message, the sender does not report the fix as    *)
(* applied and does not ask the user to rate it.                           *)
C26_RejectedNotApplied ==
    popup = "fix_applied" => ~msg.rejects

(* C27: when the persisted store cannot be read or written, synthesis      *)
(* raises no error and returns no learned patch, and the request that      *)
(* asked for it completes with a normal response.                          *)
C27_StoreFailureDegrades ==
    /\ msg.delivered /\ msg.storeFails
    /\ msg.type \in {"ANALYZE_PAGE_FOR_CHAT", "GET_LEARNING_REPORT"}
    => /\ answer.source \notin {"TypeError", "learned_pattern", "domain_pattern"}
       /\ \A i \in 1..Len(responses) :
              responses[i].from = "content.js" => responses[i].status = "ok"

(* C28: the document exportLearningData writes carries the Pattern Store,  *)
(* so that reading it back gives the same confidence values and rule       *)
(* texts: the export request is answered with the store's data.            *)
C28_ExportCarriesStore ==
    request.type = "EXPORT_LEARNING_DATA" => reply # NoReply

(* C29: each message type of the release checklist is handled by a case of *)
(* the content script's listener other than its default case, and          *)
(* TRIGGER_DARK_MODE_ANALYSIS makes an analysis of the page run.           *)
C29_ChecklistTypesHandled ==
    /\ msg.delivered
    /\ msg.type \in {"TOGGLE_DARK_MODE", "START_ELEMENT_SELECTION", "SUBMIT_DARKMODE_FEEDBACK",
                      "GET_PAGE_STATUS", "GET_AI_LEARNING_ANALYTICS",
                      "TRIGGER_DARK_MODE_ANALYSIS"}
    => /\ msg.handler # "default"
       /\ msg.type = "TRIGGER_DARK_MODE_ANALYSIS" => emitted.by # "none"

(* C30: a message delivered to the content scripts leads to exactly one    *)
(* sendResponse call, and for a type no case handles the response carries  *)
(* an error status.                                                        *)
C30_ExactlyOneResponse ==
    msg.delivered /\ msg.type # "none"
        => /\ Len(responses) = 1
           /\ msg.handler = "default" => responses[1].status = "error"

C32_StrategyNeverSwitches ==
    [][lastEvent = "rescan" /\ ~classifyElement => ~classifyElement']_vars

(* C33: while dark mode is disabled (the stored setting is off and no      *)
(* toggle message is pending) nothing is applied: the page does not carry  *)
(* the top-level marker at load, and no step adds the marker, a fixed      *)
(* marker, a feedback prompt or a style block.                             *)
C33_NothingAppliedWhileDisabled ==
    /\ ~darkModeEnabled => ~htmlClass
    /\ [][~darkModeEnabled /\ toggleMsg = "none" /\ toggleMsg' = "none" =>
             /\ htmlClass' => htmlClass
             /\ \A n \in Nodes : fixed'[n] => fixed[n]
             /\ geminiStyle' # geminiStyle => geminiStyle' = NoStyle
             /\ Len(patchStyles') <= Len(patchStyles)]_vars

(* C34: whatever enable and disable messages were handled, at most one    *)
(* periodic analysis timer is live, and none is live after a disable.      *)
C34_AtMostOneInterval ==
    /\ liveIntervals <= 1
    /\ liveIntervals = 1 <=> realTimeDarkModeInterval
    /\ lastEvent = "toggle_off" => liveIntervals = 0

(* An enable started the interval and ran a cycle, then a disable was      *)
(* handled: no timer is left.                                              *)
C34_Witness ==
    /\ lastEvent = "toggle_off" /\ cycle.completed /\ cycle.stopped
    /\ ~realTimeDarkModeInterval /\ liveIntervals = 0

(* C37: once the user has disabled dark mode and the handlers it starts   *)
(* (the storage change in the background script, TOGGLE_DARK_MODE in the   *)
(* content scripts) have all run, dark-theme.css is not inserted in the    *)
(* tab.                                                                    *)
C37_ThemeRemovedAfterDisable ==
    ~darkModeEnabled /\ toggleMsg = "none" /\ theme.stage = "idle" /\ theme.seen = darkModeEnabled
        => ~theme.inserted

(* C35: a request sent with sendToBackgroundWithTimeout has one outcome:   *)
(* the timeout fires only on a request that is still waiting, a request    *)
(* that timed out never gets a patch injected by the response that comes   *)
(* later, and once the response was taken the timeout does not fire.       *)
C35_OneOutcome ==
    [][/\ popup' = "timedout" /\ popup # "timedout" => popup = "waiting" /\ stage # "idle"
       /\ popup = "timedout" =>
              /\ patchStyles' = patchStyles /\ geminiStyle' = geminiStyle
              /\ ~fix'.injected /\ lastEvent' # "inject"
       /\ popup = "waiting" /\ stage = "replied" /\ stage' = "idle" => popup' = "idle"]_vars

(* The timeout fired first and the response with a patch is on its way to *)
(* the callback: nothing was injected for the request.                     *)
C35_Witness ==
    /\ popup = "timedout" /\ stage = "replied"
    /\ request.type = "ANALYZE_AND_FIX_ELEMENT" /\ reply.cssPatch # ""
    /\ fix.noPatch /\ ~fix.injected /\ patchStyles = <<>>

C38_NotificationLeadsToRescan ==
    (debounceTimer # NoTimer /\ lastEvent # "rescan") ~> (lastEvent = "rescan")

C40_PatternBasedIsMostFrequent ==
    answer.op = "smart" =>
        LET mine == SelectSeq(feedbackLog, LAMBDA e : e.classes = answer.elementData.classes)
            fixing == SelectSeq(mine, LAMBDA e : e.patch # "")
            fixes == [i \in 1..Len(fixing) |-> fixing[i].patch]
        IN  /\ answer.source \in {"pattern_based", "fallback_to_gemini"}
            /\ answer.source = "pattern_based" =>
                   /\ answer.elementData.classes # <<>>
                   /\ Len(mine) >= 3
                   /\ Len(answer.css) = 1 /\ answer.css[1] # ""
                   /\ answer.css[1] \in MostFrequent(fixes)

(* The endpoint answered pattern_based from a log that holds two different *)
(* fixes for the classes, the less frequent one first.                     *)
C40_Witness ==
    /\ answer.op = "smart" /\ answer.source = "pattern_based"
    /\ Len(feedbackLog) >= 3
    /\ feedbackLog[1].classes = answer.elementData.classes
    /\ feedbackLog[1].patch \notin {"", answer.css[1]}

(* C10: when reading one node fails during a scan only that node is        *)
(* skipped: every other node of the batch is classified in the same scan.  *)
C10_OnlyFailingNodeSkipped ==
    lastEvent = "cycle" => ~cycle.skipped

====
